---- MODULE Spec2Model ----
(***************************************************************************)
(* Model of the cloud-hypervisor VM configuration validator                *)
(* (vmm/src/config.rs) and of the device dependency tree                   *)
(* (vmm/src/device_tree.rs).                                               *)
(*                                                                         *)
(* Encoding conventions                                                    *)
(*   Option<T>   a sequence of length <= 1: <<>> is None, <<v>> is Some(v) *)
(*   String      a sequence of one-character strings, so that prefix and   *)
(*               length tests are computed and not assumed                 *)
(*   Vec<T>      a sequence                                                *)
(*   HashMap     a function whose DOMAIN is the set of keys; iteration     *)
(*               order is a nondeterministic choice                        *)
(***************************************************************************)
EXTENDS Integers, Sequences, FiniteSets, TLC

VARIABLES
    tree,     \* DeviceTree.0 : HashMap<String, DeviceNode>
    pc,       \* "idle" | "building" (inside BftIter::new) | "iter" (a BftIter is live)
    nodes,    \* BftIter.nodes : Vec<&DeviceNode>, as keys of the map
    idx,      \* local i of BftIter::new
    order,    \* the ordering BftIter::new returned (nodes at construction)
    fwd,      \* items returned by next(), in call order
    bwd,      \* items returned by next_back(), in call order
    cfg,      \* the VmConfig
    vres,     \* what the last VmConfig::validate call returned
    prev,     \* Option<VmConfig>: the config as it was when that call started
    rcfg,     \* Option<RestoreConfig>: the restore request last reconciled
    rres,     \* what RestoreConfig::validate returned for it
    overflow_checks, \* whether the build panics on integer overflow (else it wraps)
    fdtable,  \* the descriptor numbers that are open in the process
    vms,      \* the live VmConfig values: slot -> Option<preserved_fds>
    fdlast,   \* the last clone or drop: its operands, the table before it, its calls
    tret      \* the last DeviceTree::insert or remove whose result was kept

treeVars == <<tree, pc, nodes, idx, order, fwd, bwd>>
cfgVars == <<cfg, vres, prev, rcfg, rres, overflow_checks>>
fdVars == <<fdtable, vms, fdlast>>
vars == <<tree, pc, nodes, idx, order, fwd, bwd, cfg, vres, prev, rcfg, rres,
         overflow_checks, fdtable, vms, fdlast, tret>>

(***************************************************************************)
(* Generic helpers                                                         *)
(***************************************************************************)
None == <<>>

Some(v) == <<v>>

IsSome(o) == Len(o) = 1

IsNone(o) == Len(o) = 0

Range(s) == {s[i] : i \in 1..Len(s)}

Reverse(s) == [i \in 1..Len(s) |-> s[Len(s) + 1 - i]]

RECURSIVE SumSeq(_)
SumSeq(s) == IF s = <<>> THEN 0 ELSE Head(s) + SumSeq(Tail(s))

RECURSIVE SetToSeqs(_)
\* every ordering of a finite set (the orders a HashMap iteration can take)
SetToSeqs(S) ==
    IF S = {} THEN {<<>>}
    ELSE UNION {{<<x>> \o t : t \in SetToSeqs(S \ {x})} : x \in S}

(***************************************************************************)
(* Device dependency tree                                                  *)
(***************************************************************************)
NodeIds == {"n1", "n2", "n3"}

\* Bound: total number of entries in all `children` vectors of the tree.
MaxEdges == 3

\* Bound: length of BftIter.nodes while BftIter::new is building it.
MaxOrder == 8

\* DeviceNode::new(id, None): no parent, no children.
DeviceNodeNew == [parent |-> None, children |-> <<>>]

Keys == DOMAIN tree

RECURSIVE SumChildren(_, _)
SumChildren(m, S) ==
    IF S = {} THEN 0
    ELSE LET k == CHOOSE x \in S : TRUE
         IN Len(m[k].children) + SumChildren(m, S \ {k})

TotalChildren == SumChildren(tree, Keys)

\* Variant of MapInsert that keeps the node a key already has.
MapInsertKeepsFirst(m, k, v) ==
    [x \in (DOMAIN m) \cup {k} |-> IF x \in DOMAIN m THEN m[x] ELSE v]

\* HashMap::insert(k, v): overwrite, last insert wins.
MapInsert(m, k, v) == [x \in (DOMAIN m) \cup {k} |-> IF x = k THEN v ELSE m[x]]

\* HashMap::remove(k)
MapRemove(m, k) == [x \in (DOMAIN m) \ {k} |-> m[x]]

\* DeviceTree::get(k)
DeviceTreeGet(m, k) == IF k \in DOMAIN m THEN Some(m[k]) ELSE None

\* DeviceTree::contains_key(k)
DeviceTreeContainsKey(m, k) == k \in DOMAIN m

\* The nodes handed to insert: a fresh node, one with a parent, one with a
\* child.
NodeValues ==
    {DeviceNodeNew,
     [DeviceNodeNew EXCEPT !.parent = Some("n1")],
     [DeviceNodeNew EXCEPT !.children = <<"n2">>]}

\* let ret = DeviceTree::insert(k, v)
TreeInsert(k, v) ==
    /\ pc = "idle"
    /\ tree' = MapInsert(tree, k, v)
    /\ tret' = [op |-> "insert", k |-> k, arg |-> Some(v), ret |-> DeviceTreeGet(tree, k)]
    /\ UNCHANGED <<pc, nodes, idx, order, fwd, bwd>>

\* let ret = DeviceTree::remove(k)
TreeRemove(k) ==
    /\ pc = "idle"
    /\ tree' = MapRemove(tree, k)
    /\ tret' = [op |-> "remove", k |-> k, arg |-> None, ret |-> DeviceTreeGet(tree, k)]
    /\ UNCHANGED <<pc, nodes, idx, order, fwd, bwd>>

\* DeviceTree::insert(k, device_node!(k))
Insert(k) ==
    /\ pc = "idle"
    /\ tree' = MapInsert(tree, k, DeviceNodeNew)
    /\ UNCHANGED <<pc, nodes, idx, order, fwd, bwd>>

\* DeviceTree::remove(k): only the entry of k goes; no other node is touched.
Remove(k) ==
    /\ pc = "idle"
    /\ k \in Keys
    /\ tree' = MapRemove(tree, k)
    /\ UNCHANGED <<pc, nodes, idx, order, fwd, bwd>>

\* DeviceTree::get_mut(k).unwrap().parent = Some(p)
SetParent(k, p) ==
    /\ pc = "idle"
    /\ k \in Keys
    /\ tree' = [tree EXCEPT ![k].parent = Some(p)]
    /\ UNCHANGED <<pc, nodes, idx, order, fwd, bwd>>

\* DeviceTree::get_mut(k).unwrap().children.push(c)
PushChild(k, c) ==
    /\ pc = "idle"
    /\ k \in Keys
    /\ TotalChildren < MaxEdges
    /\ tree' = [tree EXCEPT ![k].children = Append(@, c)]
    /\ UNCHANGED <<pc, nodes, idx, order, fwd, bwd>>

\* Variant of Roots: the frontier starts with every node, parentless or not.
RootsEveryNode(m) == DOMAIN m

\* The parentless nodes of the map, the initial frontier of BftIter::new.
Roots(m) == {k \in DOMAIN m : IsNone(m[k].parent)}

\* Variant of FoundChildren: only the first child that is found is pushed.
FoundChildrenFirstOnly(m, ch) ==
    LET hit == {i \in 1..Len(ch) : ch[i] \in DOMAIN m}
    IN IF hit = {} THEN <<>>
       ELSE <<ch[CHOOSE i \in hit : \A j \in hit : i <= j]>>

\* The children of node k that hash_map.get() finds, in declaration order.
RECURSIVE FoundChildren(_, _)
FoundChildren(m, ch) ==
    IF ch = <<>> THEN <<>>
    ELSE (IF Head(ch) \in DOMAIN m THEN <<Head(ch)>> ELSE <<>>)
         \o FoundChildren(m, Tail(ch))

\* One pass of the inner for loop of BftIter::new: nodes.push(child_node).
VisitPush(ns, found) == ns \o found

\* BftIter::new, first loop: push every parentless node, in map order.
BftNew ==
    /\ pc = "idle"
    /\ \E r \in SetToSeqs(Roots(tree)) :
          /\ nodes' = r
          /\ idx' = 0
          /\ IF Len(r) = 0
             THEN pc' = "iter" /\ order' = r
             ELSE pc' = "building" /\ order' = <<>>
    /\ fwd' = <<>>
    /\ bwd' = <<>>
    /\ UNCHANGED tree

\* BftIter::new, one iteration of `while i < nodes.len()`.
BftVisit ==
    /\ pc = "building"
    /\ idx < Len(nodes)
    /\ LET found == FoundChildren(tree, tree[nodes[idx + 1]].children)
           ns == VisitPush(nodes, found)
       IN /\ Len(ns) <= MaxOrder
          /\ nodes' = ns
          /\ idx' = idx + 1
          /\ IF idx + 1 < Len(ns)
             THEN pc' = "building" /\ order' = order
             ELSE pc' = "iter" /\ order' = ns
    /\ UNCHANGED <<tree, fwd, bwd>>

\* Variant of PopFront: the element after the one returned is dropped too.
PopFrontSkipsOne(ns) ==
    [item |-> Head(ns), rest |-> IF Len(ns) > 1 THEN Tail(Tail(ns)) ELSE <<>>]

\* Vec::remove(0): the first element, the rest shifted down.
PopFront(ns) == [item |-> Head(ns), rest |-> Tail(ns)]

\* Variant of PopBack: the first element is taken instead of the last.
PopBackTakesFirst(ns) == [item |-> Head(ns), rest |-> Tail(ns)]

\* Vec::pop(): the last element.
PopBack(ns) == [item |-> ns[Len(ns)], rest |-> SubSeq(ns, 1, Len(ns) - 1)]

\* Iterator::next(): nodes.remove(0), None when empty.
IterNext ==
    /\ pc = "iter"
    /\ nodes # <<>>
    /\ fwd' = Append(fwd, PopFront(nodes).item)
    /\ nodes' = PopFront(nodes).rest
    /\ UNCHANGED <<tree, pc, idx, order, bwd>>

\* DoubleEndedIterator::next_back(): nodes.pop().
NextBack ==
    /\ pc = "iter"
    /\ nodes # <<>>
    /\ bwd' = Append(bwd, PopBack(nodes).item)
    /\ nodes' = PopBack(nodes).rest
    /\ UNCHANGED <<tree, pc, idx, order, fwd>>

\* The BftIter goes out of scope; the borrow of the map ends.
BftDrop ==
    /\ pc = "iter"
    /\ pc' = "idle"
    /\ nodes' = <<>>
    /\ idx' = 0
    /\ order' = <<>>
    /\ fwd' = <<>>
    /\ bwd' = <<>>
    /\ UNCHANGED tree

\* No result has been kept yet.
NoRet == [op |-> "none", k |-> "", arg |-> None, ret |-> None]

InitTree ==
    /\ tree = <<>>
    /\ tret = NoRet
    /\ pc = "idle"
    /\ nodes = <<>>
    /\ idx = 0
    /\ order = <<>>
    /\ fwd = <<>>
    /\ bwd = <<>>

(***************************************************************************)
(* VmConfig: the records VmConfig::validate reads                          *)
(***************************************************************************)
\* Strings as character sequences.
Str_a == <<"a">>

Str_b == <<"b">>

Str_rsv == <<"_", "_", "a">>

Str_us == <<"_", "a">>

Str_empty == <<>>

\* CpusConfig of the valid_config of test_config_validation.
CpusFixture == [boot_vcpus |-> 1, max_vcpus |-> 1, topology |-> None]

\* MemoryConfig of valid_config; sizes are in units of 256 MiB.
MemoryFixture ==
    [size |-> 2, hotplugged_size |-> None, shared |-> FALSE, hugepages |-> FALSE,
     hugepage_size |-> None, zones |-> None]

MemoryZoneFixture ==
    [id |-> Str_a, size |-> 1, shared |-> FALSE, hugepages |-> FALSE,
     hotplugged_size |-> None]

ConsoleFixture == [mode |-> "Tty", file |-> None, socket |-> None, iommu |-> FALSE]

SerialFixture == [mode |-> "Null", file |-> None, socket |-> None, iommu |-> FALSE]

DiskFixture ==
    [id |-> None, path |-> Some("/path/to_file"), vhost_socket |-> None,
     vhost_user |-> FALSE, rate_limit_group |-> None, rate_limiter_config |-> None,
     num_queues |-> 1, queue_size |-> 128, iommu |-> FALSE, pci_segment |-> 0,
     serial |-> None]

NetFixture ==
    [id |-> None, vhost_user |-> FALSE, num_queues |-> 2, fds |-> None,
     iommu |-> FALSE, pci_segment |-> 0, mtu |-> None, offload_tso |-> TRUE,
     offload_ufo |-> TRUE, offload_csum |-> TRUE]

FsFixture == [id |-> None, num_queues |-> 1, pci_segment |-> 0]

PmemFixture == [id |-> None, iommu |-> FALSE, pci_segment |-> 0]

DeviceFixture ==
    [id |-> None, path |-> "/path/to/device", iommu |-> FALSE, pci_segment |-> 0]

UserDeviceFixture == [id |-> None, pci_segment |-> 0]

VdpaFixture == [id |-> None, iommu |-> FALSE, pci_segment |-> 0]

VsockFixture == [id |-> None, cid |-> 3, iommu |-> FALSE, pci_segment |-> 0]

RateLimiterGroupFixture == [id |-> Str_a, bandwidth |-> TRUE, ops |-> FALSE]

SgxEpcFixture == [id |-> Str_a]

PciSegmentFixture ==
    [pci_segment |-> 0, mmio32_aperture_weight |-> 1, mmio64_aperture_weight |-> 1]

NumaFixture == [guest_numa_id |-> 0, memory_zones |-> None, pci_segments |-> None]

\* platform_fixture(), with the segment count scaled down from 96.
PlatformFixture ==
    [num_pci_segments |-> 2, iommu_segments |-> None, iommu_address_width_bits |-> 64]

\* valid_config of test_config_validation: a payload and nothing else.
ValidConfig ==
    [payload |-> TRUE,
     console |-> ConsoleFixture,
     serial |-> SerialFixture,
     debug_console |-> [mode |-> "Off"],
     cpus |-> CpusFixture,
     memory |-> MemoryFixture,
     rate_limit_groups |-> None,
     disks |-> None,
     net |-> None,
     fs |-> None,
     pmem |-> None,
     rng |-> [iommu |-> FALSE],
     balloon |-> None,
     devices |-> None,
     user_devices |-> None,
     vdpa |-> None,
     vsock |-> None,
     sgx_epc |-> None,
     numa |-> None,
     pci_segments |-> None,
     platform |-> None,
     landlock_rules |-> None,
     iommu |-> FALSE]

(***************************************************************************)
(* Validation: results and the per-record validate() functions             *)
(***************************************************************************)
\* Program constants.
MAX_NUM_PCI_SEGMENTS == 96

MAX_IOMMU_ADDRESS_WIDTH_BITS == 64

VIRTIO_BLK_ID_BYTES == 20

MINIMUM_BLOCK_QUEUE_SIZE == 2

MIN_MTU == 1280

\* Err(ValidationError::tag(args))
Err(tag, args) == [tag |-> tag, args |-> args]

\* A panic (unwrap on None, expect, assert_eq!, arithmetic overflow in a
\* build with overflow checks): the call does not return.
Panic(what) == [tag |-> "panic", args |-> <<what>>]

\* The first Some of a sequence of Option<error>: checks are made in order
\* and the first failing one returns.
RECURSIVE FirstErr(_)
FirstErr(checks) ==
    IF checks = <<>> THEN None
    ELSE IF IsSome(Head(checks)) THEN Head(checks)
    ELSE FirstErr(Tail(checks))

Check(failed, e) == IF failed THEN Some(e) ELSE None

\* str::starts_with("__")
StartsWithReserved(id) == Len(id) >= 2 /\ id[1] = "_" /\ id[2] = "_"

\* Variant of ValidateIdentifier without the reserved-prefix test.
ValidateIdentifierNoPrefixCheck(id_list, id) ==
    IF IsNone(id) THEN [err |-> None, ids |-> id_list]
    ELSE IF id[1] \in id_list
         THEN [err |-> Some(Err("IdentifierNotUnique", <<id[1]>>)), ids |-> id_list]
    ELSE [err |-> None, ids |-> id_list \cup {id[1]}]

\* VmConfig::validate_identifier(id_list, id) -> [err, ids]
ValidateIdentifier(id_list, id) ==
    IF IsNone(id) THEN [err |-> None, ids |-> id_list]
    ELSE IF StartsWithReserved(id[1])
         THEN [err |-> Some(Err("InvalidIdentifier", <<id[1]>>)), ids |-> id_list]
    ELSE IF id[1] \in id_list
         THEN [err |-> Some(Err("IdentifierNotUnique", <<id[1]>>)), ids |-> id_list]
    ELSE [err |-> None, ids |-> id_list \cup {id[1]}]

\* match &vm_config.platform { Some(p) => p.num_pci_segments, None => 1 }
NumPciSegments(c) ==
    IF IsSome(c.platform) THEN c.platform[1].num_pci_segments ELSE 1

\* iommu_segments.contains(&seg) under `if let Some(iommu_segments)`
OnIommuSegments(p, seg) ==
    IsSome(p.iommu_segments) /\ seg \in Range(p.iommu_segments[1])

\* Variant of SegmentCheck without the iommu-segment test.
SegmentCheckNoIommu(d, c) ==
    IF IsNone(c.platform) THEN None
    ELSE Check(d.pci_segment >= c.platform[1].num_pci_segments,
               Err("InvalidPciSegment", <<d.pci_segment>>))

\* The block shared by Disk/Net/Pmem/Device/Vdpa/Vsock ::validate:
\*   if let Some(platform_config) { segment in range; on an IOMMU segment
\*   the device must have iommu set }
SegmentCheck(d, c) ==
    IF IsNone(c.platform) THEN None
    ELSE LET p == c.platform[1]
         IN FirstErr(<<
              Check(d.pci_segment >= p.num_pci_segments,
                    Err("InvalidPciSegment", <<d.pci_segment>>)),
              Check(OnIommuSegments(p, d.pci_segment) /\ ~d.iommu,
                    Err("OnIommuSegment", <<d.pci_segment>>))>>)

\* The block shared by Fs/UserDevice ::validate: never on an IOMMU segment.
SegmentCheckNoSupport(d, c) ==
    IF IsNone(c.platform) THEN None
    ELSE LET p == c.platform[1]
         IN FirstErr(<<
              Check(d.pci_segment >= p.num_pci_segments,
                    Err("InvalidPciSegment", <<d.pci_segment>>)),
              Check(OnIommuSegments(p, d.pci_segment),
                    Err("IommuNotSupportedOnSegment", <<d.pci_segment>>))>>)

\* PciSegmentConfig::validate
PciSegmentConfigValidate(s, c) ==
    FirstErr(<<
        Check(s.pci_segment >= NumPciSegments(c),
              Err("InvalidPciSegment", <<s.pci_segment>>)),
        Check(s.mmio32_aperture_weight = 0,
              Err("InvalidPciSegmentApertureWeight", <<s.mmio32_aperture_weight>>)),
        Check(s.mmio64_aperture_weight = 0,
              Err("InvalidPciSegmentApertureWeight", <<s.mmio64_aperture_weight>>))>>)

\* PlatformConfig::validate
RECURSIVE IommuSegmentsInRange(_, _)
IommuSegmentsInRange(segs, n) ==
    IF segs = <<>> THEN None
    ELSE IF Head(segs) >= n THEN Some(Err("InvalidPciSegment", <<Head(segs)>>))
    ELSE IommuSegmentsInRange(Tail(segs), n)

PlatformConfigValidate(p) ==
    FirstErr(<<
        Check(p.num_pci_segments = 0 \/ p.num_pci_segments > MAX_NUM_PCI_SEGMENTS,
              Err("InvalidNumPciSegments", <<p.num_pci_segments>>)),
        IF IsSome(p.iommu_segments)
        THEN IommuSegmentsInRange(p.iommu_segments[1], p.num_pci_segments)
        ELSE None,
        Check(p.iommu_address_width_bits > MAX_IOMMU_ADDRESS_WIDTH_BITS,
              Err("InvalidIommuAddressWidthBits", <<p.iommu_address_width_bits>>))>>)

\* Variant of RateLimiterGroupConfigValidate without the empty-id test.
RateLimiterGroupConfigValidateNoIdCheck(g) ==
    Check(~g.bandwidth /\ ~g.ops, Err("InvalidRateLimiterGroup", <<>>))

\* RateLimiterGroupConfig::validate
RateLimiterGroupConfigValidate(g) ==
    FirstErr(<<
        Check(~g.bandwidth /\ ~g.ops, Err("InvalidRateLimiterGroup", <<>>)),
        Check(g.id = <<>>, Err("InvalidRateLimiterGroup", <<>>))>>)

\* Variant of DiskConfigValidate that rejects a serial of VIRTIO_BLK_ID_BYTES
\* bytes as well.
DiskConfigValidateSerialAtLeast(d, c) ==
    FirstErr(<<
        Check(d.num_queues > c.cpus.boot_vcpus, Err("TooManyQueues", <<>>)),
        Check(d.queue_size <= MINIMUM_BLOCK_QUEUE_SIZE,
              Err("InvalidQueueSize", <<d.queue_size>>)),
        Check(d.vhost_user /\ d.iommu, Err("IommuNotSupported", <<>>)),
        SegmentCheck(d, c),
        Check(IsSome(d.rate_limiter_config) /\ IsSome(d.rate_limit_group),
              Err("InvalidRateLimiterGroup", <<>>)),
        IF IsSome(d.serial)
        THEN Check(Len(d.serial[1]) >= VIRTIO_BLK_ID_BYTES,
                   Err("InvalidSerialLength",
                       <<Len(d.serial[1]), VIRTIO_BLK_ID_BYTES>>))
        ELSE None>>)

\* DiskConfig::validate
DiskConfigValidate(d, c) ==
    FirstErr(<<
        Check(d.num_queues > c.cpus.boot_vcpus, Err("TooManyQueues", <<>>)),
        Check(d.queue_size <= MINIMUM_BLOCK_QUEUE_SIZE,
              Err("InvalidQueueSize", <<d.queue_size>>)),
        Check(d.vhost_user /\ d.iommu, Err("IommuNotSupported", <<>>)),
        SegmentCheck(d, c),
        Check(IsSome(d.rate_limiter_config) /\ IsSome(d.rate_limit_group),
              Err("InvalidRateLimiterGroup", <<>>)),
        IF IsSome(d.serial)
        THEN Check(Len(d.serial[1]) > VIRTIO_BLK_ID_BYTES,
                   Err("InvalidSerialLength",
                       <<Len(d.serial[1]), VIRTIO_BLK_ID_BYTES>>))
        ELSE None>>)

\* Variant of NetConfigValidate that compares the number of fds with
\* num_queues / 2.
NetConfigValidateHalves(n, c) ==
    FirstErr(<<
        Check(n.num_queues < 2, Err("VnetQueueLowerThan2", <<>>)),
        Check(IsSome(n.fds) /\ Len(n.fds[1]) # n.num_queues \div 2,
              Err("VnetQueueFdMismatch", <<>>)),
        Check(IsSome(n.fds) /\ (\E i \in 1..Len(n.fds[1]) : n.fds[1][i] <= 2),
              Err("VnetReservedFd", <<>>)),
        Check((n.num_queues \div 2) > c.cpus.boot_vcpus, Err("TooManyQueues", <<>>)),
        Check(n.vhost_user /\ n.iommu, Err("IommuNotSupported", <<>>)),
        SegmentCheck(n, c),
        IF IsSome(n.mtu)
        THEN Check(n.mtu[1] < MIN_MTU, Err("InvalidMtu", <<n.mtu[1]>>))
        ELSE None,
        Check(~n.offload_csum /\ (n.offload_tso \/ n.offload_ufo),
              Err("NoHardwareChecksumOffload", <<>>))>>)

\* NetConfig::validate
NetConfigValidate(n, c) ==
    FirstErr(<<
        Check(n.num_queues < 2, Err("VnetQueueLowerThan2", <<>>)),
        Check(IsSome(n.fds) /\ Len(n.fds[1]) * 2 # n.num_queues,
              Err("VnetQueueFdMismatch", <<>>)),
        Check(IsSome(n.fds) /\ (\E i \in 1..Len(n.fds[1]) : n.fds[1][i] <= 2),
              Err("VnetReservedFd", <<>>)),
        Check((n.num_queues \div 2) > c.cpus.boot_vcpus, Err("TooManyQueues", <<>>)),
        Check(n.vhost_user /\ n.iommu, Err("IommuNotSupported", <<>>)),
        SegmentCheck(n, c),
        IF IsSome(n.mtu)
        THEN Check(n.mtu[1] < MIN_MTU, Err("InvalidMtu", <<n.mtu[1]>>))
        ELSE None,
        Check(~n.offload_csum /\ (n.offload_tso \/ n.offload_ufo),
              Err("NoHardwareChecksumOffload", <<>>))>>)

\* Variant of FsConfigValidate without the queue-count test.
FsConfigValidateNoQueueCheck(f, c) == SegmentCheckNoSupport(f, c)

\* FsConfig::validate
FsConfigValidate(f, c) ==
    FirstErr(<<
        Check(f.num_queues > c.cpus.boot_vcpus, Err("TooManyQueues", <<>>)),
        SegmentCheckNoSupport(f, c)>>)

\* PmemConfig::validate
PmemConfigValidate(d, c) == SegmentCheck(d, c)

\* DeviceConfig::validate
DeviceConfigValidate(d, c) == SegmentCheck(d, c)

\* UserDeviceConfig::validate
UserDeviceConfigValidate(d, c) == SegmentCheckNoSupport(d, c)

\* VdpaConfig::validate
VdpaConfigValidate(d, c) == SegmentCheck(d, c)

\* VsockConfig::validate
VsockConfigValidate(d, c) == SegmentCheck(d, c)

\* LandlockConfig::validate; the file system and LandlockAccess::try_from are
\* outside this core: the rule records whether its path exists and parses.
LandlockConfigValidate(r) ==
    FirstErr(<<
        Check(~r.path_exists, Err("LandlockPathDoesNotExist", <<>>)),
        Check(~r.access_valid, Err("InvalidLandlockAccess", <<>>))>>)

\* VmConfig::backed_by_shared_memory unwraps memory.zones when size == 0.
BackedBySharedMemoryPanics(c) ==
    /\ ~(c.memory.shared \/ c.memory.hugepages)
    /\ c.memory.size = 0
    /\ IsNone(c.memory.zones)

\* Variant of BackedBySharedMemory that does not look at the zones.
BackedBySharedMemoryIgnoreZones(c) == c.memory.shared \/ c.memory.hugepages \/ c.memory.size = 0

\* VmConfig::backed_by_shared_memory, where it returns.
BackedBySharedMemory(c) ==
    IF c.memory.shared \/ c.memory.hugepages THEN TRUE
    ELSE IF c.memory.size = 0
         THEN \A i \in 1..Len(c.memory.zones[1]) :
                 c.memory.zones[1][i].shared \/ c.memory.zones[1][i].hugepages
    ELSE FALSE

\* `if cond && !self.backed_by_shared_memory() { return Err(e) }`
SharedMemoryCheck(cond, c, e) ==
    IF ~cond THEN None
    ELSE IF BackedBySharedMemoryPanics(c) THEN Some(Panic("memory.zones is None"))
    ELSE Check(~BackedBySharedMemory(c), e)

(***************************************************************************)
(* VmConfig::validate                                                      *)
(*                                                                         *)
(* The running state of one call is st = [err, iommu, ids]: the error      *)
(* returned so far (None while the call is still running), the value of    *)
(* self.iommu, and id_list.  Every stage leaves st alone once err is set,  *)
(* which is the early return of the code.  The model is the x86_64 build   *)
(* without the tdx and sev_snp features.                                   *)
(***************************************************************************)
Fail(st, e) == [st EXCEPT !.err = e]

\* Self::validate_identifier(&mut id_list, id)?
WithIdentifier(st, id) ==
    LET r == ValidateIdentifier(st.ids, id)
    IN [st EXCEPT !.err = r.err, !.ids = r.ids]

\* `X.validate(self)?; self.iommu |= X.iommu; validate_identifier(X.id)?`
DeviceStep(st, verr, iommu, id) ==
    IF IsSome(verr) THEN Fail(st, verr)
    ELSE WithIdentifier([st EXCEPT !.iommu = st.iommu \/ iommu], id)

DeviceStepNoIommu(st, verr, id) ==
    IF IsSome(verr) THEN Fail(st, verr) ELSE WithIdentifier(st, id)

\* Option<Vec<T>> as the sequence `iter().flatten()` walks.
Flat(o) == IF IsSome(o) THEN o[1] ELSE <<>>

RECURSIVE RateLimitGroupsLoop(_, _, _)
RateLimitGroupsLoop(c, gs, st) ==
    IF IsSome(st.err) \/ gs = <<>> THEN st
    ELSE RateLimitGroupsLoop(c, Tail(gs),
            DeviceStepNoIommu(st, RateLimiterGroupConfigValidate(Head(gs)),
                              Some(Head(gs).id)))

\* Variant of DiskPreChecks without the missing-socket test.
DiskPreChecksNoSocketCheck(d, c) ==
    FirstErr(<<
        Check(IsSome(d.vhost_socket) /\ IsSome(d.path), Err("DiskSocketAndPath", <<>>)),
        SharedMemoryCheck(d.vhost_user, c, Err("VhostUserRequiresSharedMemory", <<>>)),
        Check(IsSome(d.rate_limit_group)
                /\ ~(\E i \in 1..Len(Flat(c.rate_limit_groups)) :
                        Flat(c.rate_limit_groups)[i].id = d.rate_limit_group[1]),
              Err("InvalidRateLimiterGroup", <<>>)),
        DiskConfigValidate(d, c)>>)

\* The checks VmConfig::validate makes on a disk before disk.validate().
DiskPreChecks(d, c) ==
    FirstErr(<<
        Check(IsSome(d.vhost_socket) /\ IsSome(d.path), Err("DiskSocketAndPath", <<>>)),
        SharedMemoryCheck(d.vhost_user, c, Err("VhostUserRequiresSharedMemory", <<>>)),
        Check(d.vhost_user /\ IsNone(d.vhost_socket), Err("VhostUserMissingSocket", <<>>)),
        Check(IsSome(d.rate_limit_group)
                /\ ~(\E i \in 1..Len(Flat(c.rate_limit_groups)) :
                        Flat(c.rate_limit_groups)[i].id = d.rate_limit_group[1]),
              Err("InvalidRateLimiterGroup", <<>>)),
        DiskConfigValidate(d, c)>>)

RECURSIVE DisksLoop(_, _, _)
DisksLoop(c, ds, st) ==
    IF IsSome(st.err) \/ ds = <<>> THEN st
    ELSE DisksLoop(c, Tail(ds),
            DeviceStep(st, DiskPreChecks(Head(ds), c), Head(ds).iommu, Head(ds).id))

NetPreChecks(n, c) ==
    FirstErr(<<
        SharedMemoryCheck(n.vhost_user, c, Err("VhostUserRequiresSharedMemory", <<>>)),
        NetConfigValidate(n, c)>>)

RECURSIVE NetsLoop(_, _, _)
NetsLoop(c, ns, st) ==
    IF IsSome(st.err) \/ ns = <<>> THEN st
    ELSE NetsLoop(c, Tail(ns),
            DeviceStep(st, NetPreChecks(Head(ns), c), Head(ns).iommu, Head(ns).id))

RECURSIVE FsLoop(_, _, _)
FsLoop(c, fs, st) ==
    IF IsSome(st.err) \/ fs = <<>> THEN st
    ELSE FsLoop(c, Tail(fs),
            DeviceStepNoIommu(st, FsConfigValidate(Head(fs), c), Head(fs).id))

\* `if !fses.is_empty() && !self.backed_by_shared_memory()` and the loop
FsStage(c, st) ==
    IF IsSome(st.err) THEN st
    ELSE LET e == SharedMemoryCheck(Flat(c.fs) # <<>>, c,
                                    Err("VhostUserRequiresSharedMemory", <<>>))
         IN IF IsSome(e) THEN Fail(st, e) ELSE FsLoop(c, Flat(c.fs), st)

RECURSIVE PmemLoop(_, _, _)
PmemLoop(c, ds, st) ==
    IF IsSome(st.err) \/ ds = <<>> THEN st
    ELSE PmemLoop(c, Tail(ds),
            DeviceStep(st, PmemConfigValidate(Head(ds), c), Head(ds).iommu, Head(ds).id))

\* self.iommu |= self.rng.iommu; self.iommu |= self.console.iommu;
RngConsoleStage(c, st) ==
    IF IsSome(st.err) THEN st
    ELSE [st EXCEPT !.iommu = st.iommu \/ c.rng.iommu \/ c.console.iommu]

\* u8 arithmetic of `threads_per_core * cores_per_die * dies_per_package *
\* packages`: each product that leaves 0..255 panics in a build with
\* overflow checks and wraps in a build without.
MulU8(a, b) == (a * b) % 256

TopologyOverflows(t) ==
    \/ t[1] * t[2] > 255
    \/ MulU8(t[1], t[2]) * t[3] > 255
    \/ MulU8(MulU8(t[1], t[2]), t[3]) * t[4] > 255

TopologyTotal(t) == MulU8(MulU8(MulU8(t[1], t[2]), t[3]), t[4])

TopologyStage(c, st, oc) ==
    IF IsSome(st.err) \/ IsNone(c.cpus.topology) THEN st
    ELSE LET t == c.cpus.topology[1]
         IN IF t[1] = 0 \/ t[2] = 0 \/ t[3] = 0 \/ t[4] = 0
            THEN Fail(st, Some(Err("CpuTopologyZeroPart", <<>>)))
            ELSE IF oc /\ TopologyOverflows(t)
            THEN Fail(st, Some(Panic("attempt to multiply with overflow")))
            ELSE IF TopologyTotal(t) # c.cpus.max_vcpus
            THEN Fail(st, Some(Err("CpuTopologyCount", <<>>)))
            ELSE st

\* u64::is_power_of_two for the sizes of the model
IsPowerOfTwo(n) == n \in {1, 2, 4, 8, 16, 32, 64}

HugepageStage(c, st) ==
    IF IsSome(st.err) \/ IsNone(c.memory.hugepage_size) THEN st
    ELSE Fail(st, FirstErr(<<
            Check(~c.memory.hugepages, Err("HugePageSizeWithoutHugePages", <<>>)),
            Check(~IsPowerOfTwo(c.memory.hugepage_size[1]),
                  Err("InvalidHugePageSize", <<c.memory.hugepage_size[1]>>))>>))

RECURSIVE UserDevicesLoop(_, _, _)
UserDevicesLoop(c, ds, st) ==
    IF IsSome(st.err) \/ ds = <<>> THEN st
    ELSE UserDevicesLoop(c, Tail(ds),
            DeviceStepNoIommu(st, UserDeviceConfigValidate(Head(ds), c), Head(ds).id))

UserDevicesStage(c, st) ==
    IF IsSome(st.err) THEN st
    ELSE LET e == SharedMemoryCheck(Flat(c.user_devices) # <<>>, c,
                                    Err("UserDevicesRequireSharedMemory", <<>>))
         IN IF IsSome(e) THEN Fail(st, e)
            ELSE UserDevicesLoop(c, Flat(c.user_devices), st)

RECURSIVE VdpaLoop(_, _, _)
VdpaLoop(c, ds, st) ==
    IF IsSome(st.err) \/ ds = <<>> THEN st
    ELSE VdpaLoop(c, Tail(ds),
            DeviceStep(st, VdpaConfigValidate(Head(ds), c), Head(ds).iommu, Head(ds).id))

\* `[!0, 0, 1, 2].contains(&vsock.cid)`; the all-ones u32 !0 is written -1,
\* its value as a 32-bit two's complement integer.
VsockSpecialCids == {-1, 0, 1, 2}

VsockCidStage(c, st) ==
    IF IsSome(st.err) \/ IsNone(c.vsock) THEN st
    ELSE Fail(st, Check(c.vsock[1].cid \in VsockSpecialCids,
                        Err("VsockSpecialCid", <<c.vsock[1].cid>>)))

\* Memory sizes are u64 byte counts.  The model counts them in units of
\* 2^62 bytes, so that a u64 holds 0 .. U64_UNITS - 1 units and the sums of
\* the balloon check wrap, or panic in a build with overflow checks, exactly
\* as the byte counts do.
U64_UNITS == 4

BalloonRamSum(c) ==
    c.memory.size + SumSeq([i \in 1..Len(Flat(c.memory.zones)) |->
                               Flat(c.memory.zones)[i].size])

\* ram_size of the balloon check: memory.size plus every zone's size.
BalloonRamSize(c) == BalloonRamSum(c) % U64_UNITS

\* Variant of BalloonStage that accepts a balloon as large as ram_size.
BalloonStageAllowsEqual(c, st, oc) ==
    IF IsSome(st.err) \/ IsNone(c.balloon) THEN st
    ELSE IF oc /\ BalloonRamSum(c) >= U64_UNITS
    THEN Fail(st, Some(Panic("attempt to add with overflow")))
    ELSE Fail(st, Check(c.balloon[1].size > BalloonRamSize(c),
                        Err("BalloonLargerThanRam",
                            <<c.balloon[1].size, BalloonRamSize(c)>>)))

BalloonStage(c, st, oc) ==
    IF IsSome(st.err) \/ IsNone(c.balloon) THEN st
    ELSE IF oc /\ BalloonRamSum(c) >= U64_UNITS
    THEN Fail(st, Some(Panic("attempt to add with overflow")))
    ELSE Fail(st, Check(c.balloon[1].size >= BalloonRamSize(c),
                        Err("BalloonLargerThanRam",
                            <<c.balloon[1].size, BalloonRamSize(c)>>)))

RECURSIVE DevicesLoop(_, _, _, _)
DevicesLoop(c, ds, paths, st) ==
    IF IsSome(st.err) \/ ds = <<>> THEN st
    ELSE IF Head(ds).path \in paths
         THEN Fail(st, Some(Err("DuplicateDevicePath", <<Head(ds).path>>)))
    ELSE DevicesLoop(c, Tail(ds), paths \cup {Head(ds).path},
            DeviceStep(st, DeviceConfigValidate(Head(ds), c), Head(ds).iommu, Head(ds).id))

VsockStage(c, st) ==
    IF IsSome(st.err) \/ IsNone(c.vsock) THEN st
    ELSE DeviceStep(st, VsockConfigValidate(c.vsock[1], c), c.vsock[1].iommu,
                    c.vsock[1].id)

\* HashMap<K, u32> of the NUMA pass as a set of <<key, node id>> pairs.
MapHas(m, k) == \E e \in m : e[1] = k

MapGet(m, k) == (CHOOSE e \in m : e[1] = k)[2]

\* for memory_zone in memory_zones.iter(): first claim wins, a second is a reuse.
RECURSIVE NumaZonesLoop(_, _, _)
NumaZonesLoop(zs, nid, used) ==
    IF zs = <<>> THEN [err |-> None, used |-> used]
    ELSE IF MapHas(used, Head(zs))
         THEN [err |-> Some(Err("MemoryZoneReused",
                                <<Head(zs), MapGet(used, Head(zs)), nid>>)),
               used |-> used]
    ELSE NumaZonesLoop(Tail(zs), nid, used \cup {<<Head(zs), nid>>})

\* Variant of NumaSegmentsLoop that names the second claimant first.
RECURSIVE NumaSegmentsLoopSwapsNodes(_, _, _, _)
NumaSegmentsLoopSwapsNodes(segs, nid, num, used) ==
    IF segs = <<>> THEN [err |-> None, used |-> used]
    ELSE IF Head(segs) >= num
         THEN [err |-> Some(Err("InvalidPciSegment", <<Head(segs)>>)), used |-> used]
    ELSE IF Head(segs) = 0 /\ nid # 0
         THEN [err |-> Some(Err("DefaultPciSegmentInvalidNode", <<nid>>)), used |-> used]
    ELSE IF MapHas(used, Head(segs))
         THEN [err |-> Some(Err("PciSegmentReused",
                                <<Head(segs), nid, MapGet(used, Head(segs))>>)),
               used |-> used]
    ELSE NumaSegmentsLoopSwapsNodes(Tail(segs), nid, num, used \cup {<<Head(segs), nid>>})

\* Variant of NumaSegmentsLoop that makes the reuse test before the
\* default-segment test.
RECURSIVE NumaSegmentsLoopReuseFirst(_, _, _, _)
NumaSegmentsLoopReuseFirst(segs, nid, num, used) ==
    IF segs = <<>> THEN [err |-> None, used |-> used]
    ELSE IF Head(segs) >= num
         THEN [err |-> Some(Err("InvalidPciSegment", <<Head(segs)>>)), used |-> used]
    ELSE IF MapHas(used, Head(segs))
         THEN [err |-> Some(Err("PciSegmentReused",
                                <<Head(segs), MapGet(used, Head(segs)), nid>>)),
               used |-> used]
    ELSE IF Head(segs) = 0 /\ nid # 0
         THEN [err |-> Some(Err("DefaultPciSegmentInvalidNode", <<nid>>)), used |-> used]
    ELSE NumaSegmentsLoopReuseFirst(Tail(segs), nid, num, used \cup {<<Head(segs), nid>>})

\* for pci_segment in pci_segments.iter(): range, default segment, reuse.
RECURSIVE NumaSegmentsLoop(_, _, _, _)
NumaSegmentsLoop(segs, nid, num, used) ==
    IF segs = <<>> THEN [err |-> None, used |-> used]
    ELSE IF Head(segs) >= num
         THEN [err |-> Some(Err("InvalidPciSegment", <<Head(segs)>>)), used |-> used]
    ELSE IF Head(segs) = 0 /\ nid # 0
         THEN [err |-> Some(Err("DefaultPciSegmentInvalidNode", <<nid>>)), used |-> used]
    ELSE IF MapHas(used, Head(segs))
         THEN [err |-> Some(Err("PciSegmentReused",
                                <<Head(segs), MapGet(used, Head(segs)), nid>>)),
               used |-> used]
    ELSE NumaSegmentsLoop(Tail(segs), nid, num, used \cup {<<Head(segs), nid>>})

RECURSIVE NumaLoop(_, _, _, _, _)
NumaLoop(c, ns, usedZones, usedSegs, st) ==
    IF IsSome(st.err) \/ ns = <<>> THEN st
    ELSE LET n == Head(ns)
             z == NumaZonesLoop(Flat(n.memory_zones), n.guest_numa_id, usedZones)
             g == NumaSegmentsLoop(Flat(n.pci_segments), n.guest_numa_id,
                                   NumPciSegments(c), usedSegs)
         IN IF IsSome(z.err) THEN Fail(st, z.err)
            ELSE IF IsSome(g.err) THEN Fail(st, g.err)
            ELSE NumaLoop(c, Tail(ns), z.used, g.used, st)

\* Ids of memory zones and of SGX EPC sections: validate_identifier(&Some(id)).
RECURSIVE IdsLoop(_, _)
IdsLoop(xs, st) ==
    IF IsSome(st.err) \/ xs = <<>> THEN st
    ELSE IdsLoop(Tail(xs), WithIdentifier(st, Some(Head(xs).id)))

RECURSIVE PciSegmentsLoop(_, _, _)
PciSegmentsLoop(c, xs, st) ==
    IF IsSome(st.err) \/ xs = <<>> THEN st
    ELSE PciSegmentsLoop(c, Tail(xs), Fail(st, PciSegmentConfigValidate(Head(xs), c)))

\* Variant of PlatformStage that does not fold the platform into iommu.
PlatformStageNoFold(c, st) ==
    IF IsSome(st.err) \/ IsNone(c.platform) THEN st
    ELSE Fail(st, PlatformConfigValidate(c.platform[1]))

\* self.platform.validate()?, then
\* self.iommu |= self.platform.map(|p| p.iommu_segments.is_some())
PlatformStage(c, st) ==
    IF IsSome(st.err) \/ IsNone(c.platform) THEN st
    ELSE LET e == PlatformConfigValidate(c.platform[1])
         IN IF IsSome(e) THEN Fail(st, e)
            ELSE [st EXCEPT !.iommu = st.iommu \/ IsSome(c.platform[1].iommu_segments)]

RECURSIVE LandlockLoop(_, _)
LandlockLoop(xs, st) ==
    IF IsSome(st.err) \/ xs = <<>> THEN st
    ELSE LandlockLoop(Tail(xs), Fail(st, LandlockConfigValidate(Head(xs))))

\* The checks before the first loop: payload, console and serial files, vCPUs.
HeadStage(c, st) ==
    Fail(st, FirstErr(<<
        Check(~c.payload, Err("KernelMissing", <<>>)),
        Check(c.console.mode = "File" /\ IsNone(c.console.file),
              Err("ConsoleFileMissing", <<>>)),
        Check(c.serial.mode = "File" /\ IsNone(c.serial.file),
              Err("ConsoleFileMissing", <<>>)),
        Check(c.cpus.max_vcpus < c.cpus.boot_vcpus,
              Err("CpusMaxLowerThanBoot", <<>>))>>))

\* The state of the call when it returns.
ValidateRun(c, oc) ==
    LET s0 == [err |-> None, iommu |-> c.iommu, ids |-> {}]
        s1 == HeadStage(c, s0)
        s2 == RateLimitGroupsLoop(c, Flat(c.rate_limit_groups), s1)
        s3 == DisksLoop(c, Flat(c.disks), s2)
        s4 == NetsLoop(c, Flat(c.net), s3)
        s5 == FsStage(c, s4)
        s6 == PmemLoop(c, Flat(c.pmem), s5)
        s7 == RngConsoleStage(c, s6)
        s8 == TopologyStage(c, s7, oc)
        s9 == HugepageStage(c, s8)
        s10 == UserDevicesStage(c, s9)
        s11 == VdpaLoop(c, Flat(c.vdpa), s10)
        s12 == VsockCidStage(c, s11)
        s13 == BalloonStage(c, s12, oc)
        s14 == DevicesLoop(c, Flat(c.devices), {}, s13)
        s15 == VsockStage(c, s14)
        s16 == NumaLoop(c, Flat(c.numa), {}, {}, s15)
        s17 == IdsLoop(Flat(c.memory.zones), s16)
        s18 == IdsLoop(Flat(c.sgx_epc), s17)
        s19 == PciSegmentsLoop(c, Flat(c.pci_segments), s18)
        s20 == PlatformStage(c, s19)
    IN LandlockLoop(Flat(c.landlock_rules), s20)

\* Ok(id_list)
Ok(ids) == [tag |-> "Ok", args |-> <<>>, ids |-> ids]

\* Variant of VmConfigValidate that toggles self.iommu where the code ORs
\* into it.
VmConfigValidateTogglesIommu(c, oc) ==
    LET st == ValidateRun(c, oc)
    IN [res |-> IF IsNone(st.err) THEN Ok(st.ids)
                ELSE [tag |-> st.err[1].tag, args |-> st.err[1].args, ids |-> {}],
        iommu |-> (c.iommu # st.iommu)]

\* VmConfig::validate(&mut self): what it returns and what it leaves in
\* self.iommu.
VmConfigValidate(c, oc) ==
    LET st == ValidateRun(c, oc)
    IN [res |-> IF IsNone(st.err) THEN Ok(st.ids)
                ELSE [tag |-> st.err[1].tag, args |-> st.err[1].args, ids |-> {}],
        iommu |-> st.iommu]

\* Variant of Retain that drops the devices without an id as well.
RetainDropsUnnamed(o, id) ==
    IF IsNone(o) THEN o
    ELSE Some(SelectSeq(o[1], LAMBDA dev : IsSome(dev.id) /\ dev.id # Some(id)))

\* Vec::retain(|dev| dev.id != Some(id)) under `if let Some(list)`
Retain(o, id) ==
    IF IsNone(o) THEN o
    ELSE Some(SelectSeq(o[1], LAMBDA dev : dev.id # Some(id)))

Removed(o, id) == IsSome(o) /\ \E i \in 1..Len(o[1]) : o[1][i].id = Some(id)

\* VmConfig::remove_device(id): the config it leaves and the bool it returns.
VmConfigRemoveDevice(c, id) ==
    [cfg |-> [c EXCEPT
                !.devices = Retain(@, id),
                !.user_devices = Retain(@, id),
                !.disks = Retain(@, id),
                !.fs = Retain(@, id),
                !.net = Retain(@, id),
                !.pmem = Retain(@, id),
                !.vdpa = Retain(@, id),
                !.vsock = IF IsSome(@) /\ @[1].id = Some(id) THEN None ELSE @],
     removed |-> \/ Removed(c.devices, id) \/ Removed(c.user_devices, id)
                 \/ Removed(c.disks, id) \/ Removed(c.fs, id)
                 \/ Removed(c.net, id) \/ Removed(c.pmem, id)
                 \/ Removed(c.vdpa, id)
                 \/ (IsSome(c.vsock) /\ c.vsock[1].id = Some(id))]

(***************************************************************************)
(* Preserved file descriptors: VmConfig::add_preserved_fds, Clone, Drop    *)
(***************************************************************************)
\* Bound: the highest descriptor number the process can have open (its
\* RLIMIT_NOFILE); 0, 1 and 2 are the standard streams.
MaxFd == 7

\* Bound: VmConfig values alive at once.
MaxVms == 2

\* Bound: cap on the length of preserved_fds.
MaxPreserved == 4

Fds == 3..MaxFd

VmIds == 1..MaxVms

\* The result of a failed libc call.
FAILED == -1

LowestFree(table) == CHOOSE f \in Fds \ table : \A g \in Fds \ table : f <= g

\* libc::dup(fd): the lowest unused descriptor number, or -1 when fd is not
\* open (EBADF) or no number is left (EMFILE).
Dup(fd, table) ==
    IF fd \notin table \/ Fds \ table = {} THEN FAILED ELSE LowestFree(table)

\* fds.iter().map(|fd| libc::dup(*fd)).collect(), and the table it leaves
RECURSIVE DupAll(_, _)
DupAll(fds, table) ==
    IF fds = <<>> THEN [fds |-> <<>>, table |-> table]
    ELSE LET d == Dup(Head(fds), table)
             r == DupAll(Tail(fds), IF d = FAILED THEN table ELSE table \cup {d})
         IN [fds |-> <<d>> \o r.fds, table |-> r.table]

\* for fd in fds.drain(..) { libc::close(fd) }: the table it leaves and, for
\* every call, the descriptor and whether it was open.
RECURSIVE CloseAll(_, _)
CloseAll(fds, table) ==
    IF fds = <<>> THEN [table |-> table, calls |-> <<>>]
    ELSE LET r == CloseAll(Tail(fds), table \ {Head(fds)})
         IN [table |-> r.table,
             calls |-> <<[fd |-> Head(fds), open |-> Head(fds) \in table]>> \o r.calls]

\* The caller's n calls of libc::dup(File::open("/dev/null")...) before
\* add_preserved_fds.
RECURSIVE OpenAll(_, _)
OpenAll(n, table) ==
    IF n = 0 THEN <<>>
    ELSE <<LowestFree(table)>> \o OpenAll(n - 1, table \cup {LowestFree(table)})

NoFdOp == [op |-> "none", v |-> 0, src |-> 0, table |-> {}, calls |-> <<>>]

FdIdle ==
    /\ fdtable = {}
    /\ vms = [v \in VmIds |-> None]
    /\ fdlast = NoFdOp

Live(v) == IsSome(vms[v])

\* preserved_fds of the live config v
PreservedFds(v) == vms[v][1]

\* A VmConfig comes to life with preserved_fds: None.
VmConfigNew(v) ==
    /\ ~Live(v)
    /\ vms' = [vms EXCEPT ![v] = Some(None)]
    /\ fdlast' = [NoFdOp EXCEPT !.op = "new", !.v = v, !.table = fdtable]
    /\ UNCHANGED fdtable

\* The caller opens n descriptors and hands them to add_preserved_fds.
AddPreservedFds(v, n) ==
    /\ Live(v)
    /\ Cardinality(Fds \ fdtable) >= n
    /\ Len(Flat(PreservedFds(v))) + n <= MaxPreserved
    /\ LET fds == OpenAll(n, fdtable)
       IN /\ fdtable' = fdtable \cup {fds[i] : i \in 1..n}
          /\ vms' = IF fds = <<>> THEN vms
                    ELSE [vms EXCEPT ![v] = Some(Some(fds \o Flat(PreservedFds(v))))]
    /\ fdlast' = [NoFdOp EXCEPT !.op = "add", !.v = v, !.table = fdtable]

\* impl Clone for VmConfig
Clone(src, dst) ==
    /\ Live(src) /\ ~Live(dst)
    /\ LET r == DupAll(Flat(PreservedFds(src)), fdtable)
       IN /\ fdtable' = r.table
          /\ vms' = [vms EXCEPT ![dst] =
                        Some(IF IsNone(PreservedFds(src)) THEN None ELSE Some(r.fds))]
    /\ fdlast' = [NoFdOp EXCEPT !.op = "clone", !.v = dst, !.src = src,
                                !.table = fdtable]

\* impl Drop for VmConfig
Drop(v) ==
    /\ Live(v)
    /\ LET r == CloseAll(Flat(PreservedFds(v)), fdtable)
       IN /\ fdtable' = r.table
          /\ fdlast' = [NoFdOp EXCEPT !.op = "drop", !.v = v, !.table = fdtable,
                                      !.calls = r.calls]
    /\ vms' = [vms EXCEPT ![v] = None]

\* No call has returned yet.
NotRun == [tag |-> "NotRun", args |-> <<>>, ids |-> {}]

CfgIdle ==
    /\ cfg = ValidConfig
    /\ vres = NotRun
    /\ prev = None
    /\ rcfg = None
    /\ rres = NotRun
    /\ overflow_checks = FALSE
    /\ FdIdle

(***************************************************************************)
(* Configurations the checks start from.  A configuration is a base        *)
(* (valid_config with some fields changed) to which a bounded number of    *)
(* device records is added, as VmConfig::parse collects them.              *)
(***************************************************************************)
\* Bound: records added to a base, in the family that varies identifiers.
MaxIdDevs == 2

\* Bound: records added to a base, in the family that varies PCI placement.
MaxPlacedDevs == 1

\* Bound: records added to a base, in the family that varies memory sharing.
MaxShmDevs == 1

\* Option<Vec<T>>: push onto the list, creating it if absent.
Push(o, x) == Some(Flat(o) \o <<x>>)

AddItem(c, it) ==
    CASE it.fam = "disk" -> [c EXCEPT !.disks = Push(@, it.rec)]
      [] it.fam = "net" -> [c EXCEPT !.net = Push(@, it.rec)]
      [] it.fam = "fs" -> [c EXCEPT !.fs = Push(@, it.rec)]
      [] it.fam = "pmem" -> [c EXCEPT !.pmem = Push(@, it.rec)]
      [] it.fam = "device" -> [c EXCEPT !.devices = Push(@, it.rec)]
      [] it.fam = "user" -> [c EXCEPT !.user_devices = Push(@, it.rec)]
      [] it.fam = "vdpa" -> [c EXCEPT !.vdpa = Push(@, it.rec)]
      [] it.fam = "vsock" -> [c EXCEPT !.vsock = Some(it.rec)]
      [] it.fam = "rlg" -> [c EXCEPT !.rate_limit_groups = Push(@, it.rec)]
      [] it.fam = "zone" -> [c EXCEPT !.memory.zones = Push(@, it.rec)]
      [] it.fam = "sgx" -> [c EXCEPT !.sgx_epc = Push(@, it.rec)]
      [] it.fam = "pciseg" -> [c EXCEPT !.pci_segments = Push(@, it.rec)]
      [] it.fam = "numa" -> [c EXCEPT !.numa = Push(@, it.rec)]

RECURSIVE Build(_, _)
Build(c, items) ==
    IF items = <<>> THEN c ELSE Build(AddItem(c, Head(items)), Tail(items))

\* Sequences of at most n elements of S.
SeqsUpTo(S, n) == UNION {[1..k -> S] : k \in 0..n}

Item(f, d) == [fam |-> f, rec |-> d]

\* valid_config backed by shared memory, so that fs and user devices pass.
SharedBase == [ValidConfig EXCEPT !.memory.shared = TRUE]

OptIds == {None, Some(Str_a), Some(Str_b), Some(Str_rsv)}

StrIds == {Str_a, Str_b, Str_rsv}

IdItems ==
    {Item("disk", [DiskFixture EXCEPT !.id = i]) : i \in OptIds}
    \cup {Item("net", [NetFixture EXCEPT !.id = i]) : i \in OptIds}
    \cup {Item("fs", [FsFixture EXCEPT !.id = i]) : i \in OptIds}
    \cup {Item("pmem", [PmemFixture EXCEPT !.id = i]) : i \in OptIds}
    \cup {Item("device", [DeviceFixture EXCEPT !.id = i, !.path = p]) :
            i \in OptIds, p \in {"/path/to/device", "/path/to/device2"}}
    \cup {Item("user", [UserDeviceFixture EXCEPT !.id = i]) : i \in OptIds}
    \cup {Item("vdpa", [VdpaFixture EXCEPT !.id = i]) : i \in OptIds}
    \cup {Item("vsock", [VsockFixture EXCEPT !.id = i]) : i \in OptIds}
    \cup {Item("rlg", [RateLimiterGroupFixture EXCEPT !.id = i]) : i \in StrIds}
    \cup {Item("zone", [MemoryZoneFixture EXCEPT !.id = i]) : i \in StrIds}
    \cup {Item("sgx", [SgxEpcFixture EXCEPT !.id = i]) : i \in StrIds}

\* Family 1: identifiers across all the families that carry one.
IdConfigs == {Build(SharedBase, its) : its \in SeqsUpTo(IdItems, MaxIdDevs)}

Segments == 0..2

Platforms ==
    {None} \cup
    {Some([PlatformFixture EXCEPT !.num_pci_segments = n, !.iommu_segments = s]) :
        n \in {1, 2}, s \in {None, Some(<<>>), Some(<<1>>), Some(<<2>>)}}

PlacedItems ==
    {Item("disk", [DiskFixture EXCEPT !.pci_segment = g, !.iommu = b]) :
        g \in Segments, b \in BOOLEAN}
    \cup {Item("net", [NetFixture EXCEPT !.pci_segment = g, !.iommu = b]) :
        g \in Segments, b \in BOOLEAN}
    \cup {Item("pmem", [PmemFixture EXCEPT !.pci_segment = g, !.iommu = b]) :
        g \in Segments, b \in BOOLEAN}
    \cup {Item("device", [DeviceFixture EXCEPT !.pci_segment = g, !.iommu = b]) :
        g \in Segments, b \in BOOLEAN}
    \cup {Item("vdpa", [VdpaFixture EXCEPT !.pci_segment = g, !.iommu = b]) :
        g \in Segments, b \in BOOLEAN}
    \cup {Item("vsock", [VsockFixture EXCEPT !.pci_segment = g, !.iommu = b]) :
        g \in Segments, b \in BOOLEAN}
    \cup {Item("fs", [FsFixture EXCEPT !.pci_segment = g]) : g \in Segments}
    \cup {Item("user", [UserDeviceFixture EXCEPT !.pci_segment = g]) : g \in Segments}
    \cup {Item("pciseg", [PciSegmentFixture EXCEPT !.pci_segment = g]) : g \in Segments}
    \cup {Item("numa", [NumaFixture EXCEPT !.guest_numa_id = n,
                                           !.pci_segments = Some(<<g>>)]) :
        n \in {0, 1}, g \in Segments}

\* Family 2: PCI segment and IOMMU placement.
PlacedConfigs ==
    {Build([SharedBase EXCEPT !.platform = p], its) :
        p \in Platforms, its \in SeqsUpTo(PlacedItems, MaxPlacedDevs)}

IommuItems ==
    {Item("disk", [DiskFixture EXCEPT !.id = Some(Str_a), !.iommu = b]) : b \in BOOLEAN}
    \cup {Item("net", [NetFixture EXCEPT !.id = Some(Str_a), !.iommu = b]) : b \in BOOLEAN}
    \cup {Item("pmem", [PmemFixture EXCEPT !.id = Some(Str_a), !.iommu = b]) : b \in BOOLEAN}
    \cup {Item("device", [DeviceFixture EXCEPT !.id = Some(Str_a), !.iommu = b]) :
            b \in BOOLEAN}
    \cup {Item("vdpa", [VdpaFixture EXCEPT !.id = Some(Str_a), !.iommu = b]) : b \in BOOLEAN}
    \cup {Item("vsock", [VsockFixture EXCEPT !.id = Some(Str_a), !.iommu = b]) :
            b \in BOOLEAN}
    \cup {Item("fs", [FsFixture EXCEPT !.id = Some(Str_a)]),
          Item("user", [UserDeviceFixture EXCEPT !.id = Some(Str_a)])}

\* Family 3: who sets an iommu flag (devices, rng, console, platform).
IommuConfigs ==
    {Build([SharedBase EXCEPT !.platform = p, !.rng.iommu = r, !.console.iommu = k], its) :
        p \in {None, Some(PlatformFixture),
               Some([PlatformFixture EXCEPT !.iommu_segments = Some(<<>>)]),
               Some([PlatformFixture EXCEPT !.iommu_segments = Some(<<1>>)])},
        r \in BOOLEAN, k \in BOOLEAN,
        its \in SeqsUpTo(IommuItems, MaxPlacedDevs)}

ZoneKinds ==
    {[MemoryZoneFixture EXCEPT !.id = i, !.shared = sh, !.hugepages = hp] :
        i \in {Str_a, Str_b}, sh \in BOOLEAN, hp \in BOOLEAN}

Memories ==
    {[MemoryFixture EXCEPT !.size = z, !.shared = sh, !.hugepages = hp, !.zones = zs] :
        z \in {0, 2}, sh \in BOOLEAN, hp \in BOOLEAN,
        zs \in {None} \cup {Some(q) : q \in SeqsUpTo(ZoneKinds, 2)}}

VhostDisk ==
    [DiskFixture EXCEPT !.vhost_user = TRUE, !.path = None,
                        !.vhost_socket = Some("/tmp/sock")]

ShmItems ==
    {Item("disk", DiskFixture), Item("disk", VhostDisk),
     Item("disk", [VhostDisk EXCEPT !.vhost_socket = None]),
     Item("net", NetFixture), Item("net", [NetFixture EXCEPT !.vhost_user = TRUE]),
     Item("fs", FsFixture), Item("user", UserDeviceFixture)}

\* Family 4: memory sharing against the devices that need shared memory.
ShmConfigs ==
    {Build([ValidConfig EXCEPT !.memory = m], its) :
        m \in Memories, its \in SeqsUpTo(ShmItems, MaxShmDevs)}

RemoveIds == {Str_a, Str_b}

\* VmConfig::validate(&mut self)
Validate ==
    /\ LET r == VmConfigValidate(cfg, overflow_checks)
       IN /\ cfg' = [cfg EXCEPT !.iommu = r.iommu]
          /\ vres' = r.res
    /\ prev' = Some(cfg)
    /\ UNCHANGED <<rcfg, rres, overflow_checks>>

\* VmConfig::remove_device(&mut self, id)
RemoveDevice(id) ==
    /\ LET r == VmConfigRemoveDevice(cfg, id)
       IN /\ cfg' = r.cfg
          /\ vres' = [tag |-> "Removed", args |-> <<id, r.removed>>, ids |-> {}]
    /\ prev' = Some(cfg)
    /\ UNCHANGED <<rcfg, rres, overflow_checks>>

(***************************************************************************)
(* RestoreConfig                                                           *)
(***************************************************************************)
\* The closure of RestoreConfig::parse that builds one RestoredNetConfig.
RestoredNetConfigParse(id, fds) == [id |-> id, num_fds |-> Len(fds), fds |-> Some(fds)]

\* Variant of RestoredMapLoop in which a later entry replaces an earlier one
\* of the same id.
RECURSIVE RestoredMapLoopOverwrites(_, _)
RestoredMapLoopOverwrites(es, m) ==
    IF es = <<>> THEN [err |-> None, map |-> m]
    ELSE LET n == Head(es)
         IN IF n.num_fds # (IF IsSome(n.fds) THEN Len(n.fds[1]) ELSE 0)
            THEN [err |-> Some(Panic("Invalid 'RestoredNetConfig' with conflicted fields.")),
                  map |-> m]
            ELSE RestoredMapLoopOverwrites(Tail(es),
                    {e \in m : e[1] # n.id} \cup {<<n.id, n.num_fds>>})

\* First loop of RestoreConfig::validate: the id -> entry map, as a set of
\* <<id, num_fds>> pairs.
RECURSIVE RestoredMapLoop(_, _)
RestoredMapLoop(es, m) ==
    IF es = <<>> THEN [err |-> None, map |-> m]
    ELSE LET n == Head(es)
         IN IF n.num_fds # (IF IsSome(n.fds) THEN Len(n.fds[1]) ELSE 0)
            THEN [err |-> Some(Panic("Invalid 'RestoredNetConfig' with conflicted fields.")),
                  map |-> m]
            ELSE IF MapHas(m, n.id)
            THEN [err |-> Some(Err("IdentifierNotUnique", <<n.id>>)), map |-> m]
            ELSE RestoredMapLoop(Tail(es), m \cup {<<n.id, n.num_fds>>})

\* Variant of RestoredNetLoop that does not compare the fd counts.
RECURSIVE RestoredNetLoopNoCount(_, _)
RestoredNetLoopNoCount(ns, m) ==
    IF ns = <<>> THEN None
    ELSE LET n == Head(ns)
         IN IF IsNone(n.fds) THEN RestoredNetLoopNoCount(Tail(ns), m)
            ELSE IF IsNone(n.id)
            THEN Some(Panic("Invalid 'NetConfig' with empty 'id' for VM restore."))
            ELSE IF ~MapHas(m, n.id[1])
            THEN Some(Err("RestoreMissingRequiredNetId", <<n.id[1]>>))
            ELSE RestoredNetLoopNoCount(Tail(ns), {e \in m : e[1] # n.id[1]})

\* Variant of RestoredNetLoop that reports the two counts in the other order.
RECURSIVE RestoredNetLoopSwapsCounts(_, _)
RestoredNetLoopSwapsCounts(ns, m) ==
    IF ns = <<>> THEN None
    ELSE LET n == Head(ns)
         IN IF IsNone(n.fds) THEN RestoredNetLoopSwapsCounts(Tail(ns), m)
            ELSE IF IsNone(n.id)
            THEN Some(Panic("Invalid 'NetConfig' with empty 'id' for VM restore."))
            ELSE IF ~MapHas(m, n.id[1])
            THEN Some(Err("RestoreMissingRequiredNetId", <<n.id[1]>>))
            ELSE IF MapGet(m, n.id[1]) # Len(n.fds[1])
            THEN Some(Err("RestoreNetFdCountMismatch",
                          <<n.id[1], Len(n.fds[1]), MapGet(m, n.id[1])>>))
            ELSE RestoredNetLoopSwapsCounts(Tail(ns), {e \in m : e[1] # n.id[1]})

\* Second loop: every fd-backed NIC consumes the entry of its id.
RECURSIVE RestoredNetLoop(_, _)
RestoredNetLoop(ns, m) ==
    IF ns = <<>> THEN None
    ELSE LET n == Head(ns)
         IN IF IsNone(n.fds) THEN RestoredNetLoop(Tail(ns), m)
            ELSE IF IsNone(n.id)
            THEN Some(Panic("Invalid 'NetConfig' with empty 'id' for VM restore."))
            ELSE IF ~MapHas(m, n.id[1])
            THEN Some(Err("RestoreMissingRequiredNetId", <<n.id[1]>>))
            ELSE IF MapGet(m, n.id[1]) # Len(n.fds[1])
            THEN Some(Err("RestoreNetFdCountMismatch",
                          <<n.id[1], MapGet(m, n.id[1]), Len(n.fds[1])>>))
            ELSE RestoredNetLoop(Tail(ns), {e \in m : e[1] # n.id[1]})

\* RestoreConfig::validate(&self, vm_config)
RestoreConfigValidate(rc, c) ==
    LET m == RestoredMapLoop(Flat(rc.net_fds), {})
        e == IF IsSome(m.err) THEN m.err ELSE RestoredNetLoop(Flat(c.net), m.map)
    IN IF IsNone(e) THEN Ok({})
       ELSE [tag |-> e[1].tag, args |-> e[1].args, ids |-> {}]

\* Bound: NICs of the snapshot's configuration.
MaxNics == 2

\* Bound: entries of net_fds in a restore request.
MaxRestoreEntries == 2

Str_c == <<"c">>

NicItems ==
    {Item("net", [NetFixture EXCEPT !.id = i, !.fds = f,
                                    !.num_queues = IF IsSome(f) THEN 2 * Len(f[1]) ELSE 2]) :
        i \in {Some(Str_a), Some(Str_b)},
        f \in {None, Some(<<3>>), Some(<<3, 4>>)}}
    \cup {Item("net", [NetFixture EXCEPT !.id = None, !.fds = Some(<<3>>)])}

\* Family 5: NICs, fd-backed or not, under two boot vCPUs.
NicConfigs ==
    {Build([ValidConfig EXCEPT !.cpus.boot_vcpus = 2, !.cpus.max_vcpus = 2], its) :
        its \in SeqsUpTo(NicItems, MaxNics)}

RestoredEntries ==
    {RestoredNetConfigParse(i, f) : i \in {Str_a, Str_b}, f \in {<<5>>, <<5, 6>>}}
    \cup {RestoredNetConfigParse(Str_c, <<5>>)}

RestoreConfigs ==
    {[net_fds |-> None]}
    \cup {[net_fds |-> Some(es)] : es \in SeqsUpTo(RestoredEntries, MaxRestoreEntries)}

\* RestoreConfig::validate(&self, &vm_config) on the configuration of a
\* snapshot, which is a configuration VmConfig::validate accepted.
RestoreValidate(rc) ==
    /\ vres.tag = "Ok"
    /\ rcfg' = Some(rc)
    /\ rres' = RestoreConfigValidate(rc, cfg)
    /\ UNCHANGED <<cfg, vres, prev, overflow_checks>>

(***************************************************************************)
(* Specifications of the validator: a configuration as parsed, then any    *)
(* sequence of validate() and remove_device() calls.  There is one         *)
(* specification per family of starting configurations.                    *)
(***************************************************************************)
InitWith(configs) ==
    /\ InitTree
    /\ cfg \in configs
    /\ vres = NotRun
    /\ prev = None
    /\ rcfg = None
    /\ rres = NotRun
    /\ overflow_checks = FALSE
    /\ FdIdle

NextConfig ==
    \/ Validate /\ UNCHANGED <<treeVars, fdVars, tret>>
    \/ \E id \in RemoveIds : RemoveDevice(id) /\ UNCHANGED <<treeVars, fdVars, tret>>

InitIds == InitWith(IdConfigs)

SpecIds == InitIds /\ [][NextConfig]_vars

InitPlaced == InitWith(PlacedConfigs)

SpecPlaced == InitPlaced /\ [][NextConfig]_vars

InitIommu == InitWith(IommuConfigs)

SpecIommu == InitIommu /\ [][NextConfig]_vars

InitShm == InitWith(ShmConfigs)

SpecShm == InitShm /\ [][NextConfig]_vars

(***************************************************************************)
(* Specification of the NUMA pass: configurations that differ in their     *)
(* NUMA nodes, declared memory zones and platform.                         *)
(***************************************************************************)
\* Bound: NUMA nodes of a configuration.
MaxNumaNodes == 2

NumaNodes ==
    {[NumaFixture EXCEPT !.guest_numa_id = n, !.memory_zones = z, !.pci_segments = g] :
        n \in {0, 1},
        z \in {None, Some(<<Str_a>>), Some(<<Str_b>>)},
        g \in {None, Some(<<0>>), Some(<<1>>), Some(<<1, 0>>)}}

DeclaredZones ==
    {None,
     Some(<<MemoryZoneFixture>>),
     Some(<<MemoryZoneFixture, [MemoryZoneFixture EXCEPT !.id = Str_b]>>)}

\* Family 6: NUMA nodes claiming memory zones and PCI segments.
NumaConfigs ==
    {[ValidConfig EXCEPT !.platform = p, !.memory.zones = zs,
                         !.numa = IF ns = <<>> THEN None ELSE Some(ns)] :
        p \in {None, Some(PlatformFixture)},
        zs \in DeclaredZones,
        ns \in SeqsUpTo(NumaNodes, MaxNumaNodes)}

InitNuma == InitWith(NumaConfigs)

SpecNuma == InitNuma /\ [][NextConfig]_vars

(***************************************************************************)
(* Specification of the vhost-user disk checks: configurations that differ *)
(* in their disks and in the fields validate() reads before the disks.     *)
(***************************************************************************)
\* Bound: disks of a configuration.
MaxVhostDisks == 2

VhostDisks ==
    {DiskFixture,
     VhostDisk,
     [VhostDisk EXCEPT !.vhost_socket = None],
     [DiskFixture EXCEPT !.vhost_user = TRUE],
     [DiskFixture EXCEPT !.num_queues = 2]}

\* Family 7: vhost-user disks under different payloads, consoles, memories.
VhostConfigs ==
    {[ValidConfig EXCEPT !.payload = pl, !.console = k, !.memory = m, !.net = n,
                         !.disks = IF ds = <<>> THEN None ELSE Some(ds)] :
        pl \in BOOLEAN,
        k \in {ConsoleFixture, [ConsoleFixture EXCEPT !.mode = "File"]},
        m \in {MemoryFixture, [MemoryFixture EXCEPT !.shared = TRUE],
               [MemoryFixture EXCEPT !.size = 0]},
        n \in {None, Some(<<[NetFixture EXCEPT !.vhost_user = TRUE]>>)},
        ds \in SeqsUpTo(VhostDisks, MaxVhostDisks)}

InitVhost == InitWith(VhostConfigs)

SpecVhost == InitVhost /\ [][NextConfig]_vars

(***************************************************************************)
(* Specification of the CPU topology check: configurations that differ in  *)
(* their vCPU counts and topology, in a build with or without overflow     *)
(* checks.                                                                 *)
(***************************************************************************)
\* u8 values of a topology factor: zero, small ones, and ones whose
\* products pass 255.
TopologyFactors == {0, 1, 2, 16, 129}

Topologies ==
    {None} \cup {Some(<<a, b, d, e>>) : a \in TopologyFactors, b \in TopologyFactors,
                                       d \in TopologyFactors, e \in TopologyFactors}

\* Family 8: CpusConfig with an explicit topology.
TopologyConfigs ==
    {[ValidConfig EXCEPT !.cpus = [boot_vcpus |-> b, max_vcpus |-> m, topology |-> t]] :
        b \in {1, 2}, m \in {1, 2, 4}, t \in Topologies}

InitTopology ==
    /\ InitTree
    /\ cfg \in TopologyConfigs
    /\ vres = NotRun
    /\ prev = None
    /\ rcfg = None
    /\ rres = NotRun
    /\ overflow_checks \in BOOLEAN
    /\ FdIdle

SpecTopology == InitTopology /\ [][NextConfig]_vars

(***************************************************************************)
(* Specification of the queue checks: configurations that differ in their  *)
(* boot vCPUs and in the queues and fds of their disks, NICs, filesystems. *)
(***************************************************************************)
\* Bound: devices with queues of a configuration.
MaxQueueDevs == 2

QueueItems ==
    {Item("disk", [DiskFixture EXCEPT !.num_queues = q]) : q \in 1..3}
    \cup {Item("fs", [FsFixture EXCEPT !.num_queues = q]) : q \in 1..3}
    \cup {Item("net", [NetFixture EXCEPT !.num_queues = q, !.fds = f]) :
            q \in 1..5,
            f \in {None, Some(<<3>>), Some(<<2>>), Some(<<3, 4>>), Some(<<3, 1>>)}}

\* Family 9: queue counts against the boot vCPUs.
QueueConfigs ==
    {Build([SharedBase EXCEPT !.cpus.boot_vcpus = b, !.cpus.max_vcpus = 2], its) :
        b \in {1, 2}, its \in SeqsUpTo(QueueItems, MaxQueueDevs)}

InitQueues == InitWith(QueueConfigs)

SpecQueues == InitQueues /\ [][NextConfig]_vars

(***************************************************************************)
(* Specification of the balloon check: configurations with a balloon that  *)
(* differ in its size and in the sizes of the memory and of its zones.     *)
(***************************************************************************)
BalloonFixture == [size |-> 1, deflate_on_oom |-> FALSE, free_page_reporting |-> FALSE]

BalloonZones ==
    {None,
     Some(<<MemoryZoneFixture>>),
     Some(<<[MemoryZoneFixture EXCEPT !.size = 2, !.hotplugged_size = Some(1)]>>),
     Some(<<MemoryZoneFixture, [MemoryZoneFixture EXCEPT !.id = Str_b]>>)}

\* Family 10: balloon sizes against memory sizes.
BalloonConfigs ==
    {[ValidConfig EXCEPT
        !.payload = p,
        !.memory.size = m,
        !.memory.hotplugged_size = h,
        !.memory.zones = z,
        !.balloon = Some([BalloonFixture EXCEPT !.size = b])] :
        p \in BOOLEAN,
        m \in 1..(U64_UNITS - 1), h \in {None, Some(1)}, z \in BalloonZones,
        b \in 0..(U64_UNITS - 1)}

InitBalloon ==
    /\ InitTree
    /\ cfg \in BalloonConfigs
    /\ vres = NotRun
    /\ prev = None
    /\ rcfg = None
    /\ rres = NotRun
    /\ overflow_checks \in BOOLEAN
    /\ FdIdle

SpecBalloon == InitBalloon /\ [][NextConfig]_vars

(***************************************************************************)
(* Specification of the console checks: configurations that differ in the *)
(* modes, files and sockets of their console, serial and debug console.    *)
(***************************************************************************)
\* ConsoleConfig values: every ConsoleOutputMode with and without a file and
\* a socket.
ConsoleChoices ==
    {[ConsoleFixture EXCEPT !.mode = m, !.file = f, !.socket = k] :
        m \in {"Off", "Pty", "Tty", "File", "Socket", "Null"},
        f \in {None, Some("/tmp/console")},
        k \in {None, Some("/tmp/console.sock")}}

\* Family 11: consoles.
ConsoleConfigs ==
    {[ValidConfig EXCEPT !.payload = p, !.console = k, !.serial = s,
                         !.debug_console.mode = d] :
        p \in BOOLEAN, k \in ConsoleChoices, s \in ConsoleChoices,
        d \in {"Off", "Tty"}}

SpecConsole == InitWith(ConsoleConfigs) /\ [][NextConfig]_vars

(***************************************************************************)
(* Specification of the serial check: configurations whose disks differ in *)
(* the length of their serial.                                             *)
(***************************************************************************)
\* Bound: disks of a configuration.
MaxSerialDisks == 2

\* Disks without a serial and with a serial of n bytes ("a".repeat(n)), for
\* lengths up to and beyond VIRTIO_BLK_ID_BYTES, with a valid and an invalid
\* queue size.
SerialDisks ==
    {[DiskFixture EXCEPT !.serial = sn, !.queue_size = q] :
        sn \in {None} \cup
               {Some([i \in 1..n |-> "a"]) :
                   n \in {0, 1, 12, VIRTIO_BLK_ID_BYTES - 1, VIRTIO_BLK_ID_BYTES,
                          VIRTIO_BLK_ID_BYTES + 1, VIRTIO_BLK_ID_BYTES + 2,
                          2 * VIRTIO_BLK_ID_BYTES}},
        q \in {128, MINIMUM_BLOCK_QUEUE_SIZE}}

\* Family 12: disk serials.
SerialConfigs ==
    {[ValidConfig EXCEPT !.disks = IF ds = <<>> THEN None ELSE Some(ds)] :
        ds \in SeqsUpTo(SerialDisks, MaxSerialDisks)}

SpecSerial == InitWith(SerialConfigs) /\ [][NextConfig]_vars

(***************************************************************************)
(* Specification of the preserved descriptors: VmConfig values are made,   *)
(* given descriptors, cloned and dropped in any order.                     *)
(***************************************************************************)
InitFds == InitTree /\ CfgIdle

NextFds ==
    \/ \E v \in VmIds : VmConfigNew(v) /\ UNCHANGED <<treeVars, cfgVars, tret>>
    \/ \E v \in VmIds, n \in 0..2 : AddPreservedFds(v, n) /\ UNCHANGED <<treeVars, cfgVars, tret>>
    \/ \E src \in VmIds, dst \in VmIds : Clone(src, dst) /\ UNCHANGED <<treeVars, cfgVars, tret>>
    \/ \E v \in VmIds : Drop(v) /\ UNCHANGED <<treeVars, cfgVars, tret>>

SpecFds == InitFds /\ [][NextFds]_vars

(***************************************************************************)
(* Specification of failing validations: configurations whose devices set  *)
(* iommu flags and in which a later check fails.                           *)
(***************************************************************************)
\* Bound: devices of a configuration.
MaxFailDevs == 2

\* Family 13: iommu flags in front of a failing check: a repeated id, a
\* topology with a zero part, a platform with too wide an IOMMU address.
FailingConfigs ==
    {Build([SharedBase EXCEPT !.rng.iommu = r, !.cpus.topology = t, !.platform = p], its) :
        r \in BOOLEAN,
        t \in {None, Some(<<0, 1, 1, 1>>)},
        p \in {None,
               Some([PlatformFixture EXCEPT
                       !.iommu_address_width_bits = MAX_IOMMU_ADDRESS_WIDTH_BITS + 1])},
        its \in SeqsUpTo(IommuItems, MaxFailDevs)}

SpecFailing == InitWith(FailingConfigs) /\ [][NextConfig]_vars

(***************************************************************************)
(* Specification of the rate limiter checks: configurations that differ in *)
(* their rate limit groups and in what their disks say about rate limits.  *)
(***************************************************************************)
\* Bound: disks of a configuration.
MaxRateDisks == 2

\* rate_limit_groups: absent, empty, well-formed groups, a group without
\* bandwidth and ops, a group with an empty id.
RateGroups ==
    {None,
     Some(<<>>),
     Some(<<RateLimiterGroupFixture>>),
     Some(<<RateLimiterGroupFixture,
            [RateLimiterGroupFixture EXCEPT !.id = Str_b, !.bandwidth = FALSE, !.ops = TRUE]>>),
     Some(<<[RateLimiterGroupFixture EXCEPT !.bandwidth = FALSE]>>),
     Some(<<RateLimiterGroupFixture, [RateLimiterGroupFixture EXCEPT !.id = Str_empty]>>)}

\* Disks with and without a group reference and an inline rate limiter, with
\* one queue and with more queues than boot vCPUs.
RateDisks ==
    {[DiskFixture EXCEPT !.rate_limit_group = g, !.rate_limiter_config = r,
                         !.num_queues = q] :
        g \in {None, Some(Str_a), Some(Str_b), Some(Str_empty)},
        r \in {None, Some([bandwidth |-> TRUE, ops |-> FALSE])},
        q \in {1, 2}}

\* Family 14: rate limit groups and the disks that refer to them.
RateConfigs ==
    {[ValidConfig EXCEPT !.rate_limit_groups = gs,
                         !.disks = IF ds = <<>> THEN None ELSE Some(ds)] :
        gs \in RateGroups, ds \in SeqsUpTo(RateDisks, MaxRateDisks)}

SpecRate == InitWith(RateConfigs) /\ [][NextConfig]_vars

(***************************************************************************)
(* Specification of restore: a snapshot's configuration is validated and   *)
(* restore requests are reconciled against it.                             *)
(***************************************************************************)
InitRestore == InitWith(NicConfigs)

NextRestore ==
    \/ Validate /\ UNCHANGED <<treeVars, fdVars, tret>>
    \/ \E rc \in RestoreConfigs : RestoreValidate(rc) /\ UNCHANGED <<treeVars, fdVars, tret>>

SpecRestore == InitRestore /\ [][NextRestore]_vars

(***************************************************************************)
(* Specification of the device tree: an empty DeviceTree, then any         *)
(* sequence of insert / get_mut / remove calls and of traversals.          *)
(***************************************************************************)
InitTreeSpec == InitTree /\ CfgIdle

NextTree ==
    \/ \E k \in NodeIds : Insert(k) /\ UNCHANGED <<cfgVars, fdVars, tret>>
    \/ \E k \in NodeIds : Remove(k) /\ UNCHANGED <<cfgVars, fdVars, tret>>
    \/ \E k \in NodeIds, p \in NodeIds : SetParent(k, p) /\ UNCHANGED <<cfgVars, fdVars, tret>>
    \/ \E k \in NodeIds, c \in NodeIds : PushChild(k, c) /\ UNCHANGED <<cfgVars, fdVars, tret>>
    \/ BftNew /\ UNCHANGED <<cfgVars, fdVars, tret>>
    \/ BftVisit /\ UNCHANGED <<cfgVars, fdVars, tret>>
    \/ IterNext /\ UNCHANGED <<cfgVars, fdVars, tret>>
    \/ NextBack /\ UNCHANGED <<cfgVars, fdVars, tret>>
    \/ BftDrop /\ UNCHANGED <<cfgVars, fdVars, tret>>

SpecTree == InitTreeSpec /\ [][NextTree]_vars

\* The same with the scheduling of a running call: BftIter::new, once
\* entered, keeps executing its while loop.
SpecTreeFair == InitTreeSpec /\ [][NextTree]_vars /\ WF_treeVars(BftVisit)

\* The DeviceTree as a map: inserts of any node and removes of any key.
NextMap ==
    \/ \E k \in NodeIds, v \in NodeValues :
          TreeInsert(k, v) /\ UNCHANGED <<cfgVars, fdVars>>
    \/ \E k \in NodeIds : TreeRemove(k) /\ UNCHANGED <<cfgVars, fdVars>>

SpecMap == InitTreeSpec /\ [][NextMap]_vars

(***************************************************************************)
(* Properties of the device tree                                           *)
(***************************************************************************)
\* Parent/child links are mutually consistent: every referenced id is a key,
\* and P lists C in `children` exactly when C's `parent` is P.
Consistent ==
    /\ \A k \in Keys : IsSome(tree[k].parent) => tree[k].parent[1] \in Keys
    /\ \A k \in Keys : Range(tree[k].children) \subseteq Keys
    /\ \A p \in Keys, c \in Keys :
          (c \in Range(tree[p].children)) <=> (tree[c].parent = Some(p))

\* Number of parent links from k up to a parentless node; -1 when the chain
\* of parents leaves the tree or does not end within `fuel` links.
RECURSIVE DepthFrom(_, _)
DepthFrom(k, fuel) ==
    IF k \notin Keys THEN -1
    ELSE IF IsNone(tree[k].parent) THEN 0
    ELSE IF fuel = 0 THEN -1
    ELSE LET d == DepthFrom(tree[k].parent[1], fuel - 1)
         IN IF d < 0 THEN -1 ELSE d + 1

Depth(k) == DepthFrom(k, Cardinality(Keys))

Acyclic == \A k \in Keys : Depth(k) >= 0

NoRepeatedChild ==
    \A k \in Keys : \A i \in 1..Len(tree[k].children), j \in 1..Len(tree[k].children) :
        tree[k].children[i] = tree[k].children[j] => i = j

Occurrences(s, k) == Cardinality({i \in 1..Len(s) : s[i] = k})

HasParent(k) == IsSome(tree[k].parent)

\* C1: on a consistent, acyclic tree the forward traversal yields every node
\* strictly after its parent, the parentless nodes before all others, and,
\* once consumed, every node of the tree.
C1_ParentBeforeChild ==
    (pc = "iter" /\ bwd = <<>> /\ Consistent /\ Acyclic) =>
        /\ \A i \in 1..Len(fwd) :
              HasParent(fwd[i]) => \E j \in 1..(i - 1) : fwd[j] = tree[fwd[i]].parent[1]
        /\ \A i \in 1..Len(fwd), j \in 1..Len(fwd) :
              (~HasParent(fwd[i]) /\ HasParent(fwd[j])) => i < j
        /\ (nodes = <<>> => (fwd = order /\ Keys \subseteq Range(fwd)))

C1_Witness ==
    /\ pc = "iter" /\ nodes = <<>> /\ bwd = <<>>
    /\ Consistent /\ Acyclic
    /\ Cardinality(Keys) = 3
    /\ \E k \in Keys : Depth(k) = 2

\* C2: on a consistent, acyclic tree the traversal consumed from the back
\* yields the exact reverse of the forward order: a node of depth d+1 comes
\* before every node of depth d, and every child before its parent.
C2_ReverseOrder ==
    (pc = "iter" /\ fwd = <<>> /\ nodes = <<>> /\ Consistent /\ Acyclic) =>
        /\ bwd = Reverse(order)
        /\ \A i \in 1..Len(bwd), j \in 1..Len(bwd) :
              Depth(bwd[i]) = Depth(bwd[j]) + 1 => i < j
        /\ \A i \in 1..Len(bwd) :
              HasParent(bwd[i]) =>
                  \E j \in (i + 1)..Len(bwd) : bwd[j] = tree[bwd[i]].parent[1]

C2_Witness ==
    /\ pc = "iter" /\ nodes = <<>> /\ fwd = <<>>
    /\ Consistent /\ Acyclic
    /\ Cardinality(Keys) = 3
    /\ Cardinality({k \in Keys : Depth(k) = 1}) = 2

\* C3 as stated: on a consistent, acyclic tree a fully consumed traversal,
\* by any interleaving of next() and next_back(), yields each stored node
\* exactly once.
C3_Original ==
    (pc = "iter" /\ nodes = <<>> /\ Consistent /\ Acyclic) =>
        /\ Len(fwd) + Len(bwd) = Cardinality(Keys)
        /\ \A k \in Keys : Occurrences(fwd \o bwd, k) = 1

\* C3 amended: the same, for trees in which moreover no `children` vector
\* names the same id twice.
C3_EachNodeOnce ==
    (pc = "iter" /\ nodes = <<>> /\ Consistent /\ Acyclic /\ NoRepeatedChild) =>
        /\ Len(fwd) + Len(bwd) = Cardinality(Keys)
        /\ \A k \in Keys : Occurrences(fwd \o bwd, k) = 1

C3_Witness ==
    /\ pc = "iter" /\ nodes = <<>>
    /\ Consistent /\ Acyclic /\ NoRepeatedChild
    /\ Cardinality(Keys) = 3
    /\ Len(fwd) = 2 /\ Len(bwd) = 1
    /\ \E k \in Keys : HasParent(k)

(***************************************************************************)
(* Properties of VmConfig::validate                                        *)
(***************************************************************************)
\* The last call on the configuration was validate(), and `vres` is what it
\* returned for `cfg`.
ValidateReturned == vres.tag \notin {"NotRun", "Removed"}

ValidateOk == vres.tag = "Ok"

\* The explicit ids of a list of records whose id is an Option<String>.
SomeIdsOf(l) ==
    LET s == SelectSeq(l, LAMBDA d : IsSome(d.id))
    IN [i \in 1..Len(s) |-> s[i].id[1]]

\* The ids of a list of records whose id is a String.
StringIdsOf(l) == [i \in 1..Len(l) |-> l[i].id]

\* Every explicit id of the eleven families, one entry per occurrence.
ExplicitIds(c) ==
    StringIdsOf(Flat(c.rate_limit_groups))
    \o SomeIdsOf(Flat(c.disks)) \o SomeIdsOf(Flat(c.net)) \o SomeIdsOf(Flat(c.fs))
    \o SomeIdsOf(Flat(c.pmem)) \o SomeIdsOf(Flat(c.user_devices))
    \o SomeIdsOf(Flat(c.vdpa)) \o SomeIdsOf(Flat(c.devices)) \o SomeIdsOf(c.vsock)
    \o StringIdsOf(Flat(c.memory.zones)) \o StringIdsOf(Flat(c.sgx_epc))

BeginsWithDoubleUnderscore(id) == Len(id) >= 2 /\ id[1] = "_" /\ id[2] = "_"

DuplicateIds(c) == {id \in Range(ExplicitIds(c)) : Occurrences(ExplicitIds(c), id) > 1}

ReservedIds(c) == {id \in Range(ExplicitIds(c)) : BeginsWithDoubleUnderscore(id)}

\* C4: after validate() returns Ok(S) the explicit ids of the eleven families
\* are pairwise distinct, none begins with "__", and S is exactly their set;
\* IdentifierNotUnique(id) names an id that occurs twice, InvalidIdentifier(id)
\* an id with the reserved prefix, and a configuration whose only defect is
\* such an id fails with one of the two.
C4_UniqueIdentifiers ==
    /\ ValidateOk =>
          /\ DuplicateIds(cfg) = {}
          /\ ReservedIds(cfg) = {}
          /\ vres.ids = Range(ExplicitIds(cfg))
    /\ vres.tag = "IdentifierNotUnique" =>
          (Len(vres.args) = 1 /\ vres.args[1] \in DuplicateIds(cfg))
    /\ vres.tag = "InvalidIdentifier" =>
          (Len(vres.args) = 1 /\ vres.args[1] \in ReservedIds(cfg))
    /\ (ValidateReturned /\ vres.tag # "DuplicateDevicePath"
            /\ (DuplicateIds(cfg) # {} \/ ReservedIds(cfg) # {})) =>
          vres.tag \in {"IdentifierNotUnique", "InvalidIdentifier"}

C4_Witness ==
    /\ ValidateOk
    /\ Cardinality(vres.ids) = 2
    /\ IsSome(cfg.sgx_epc)
    /\ \E i \in 1..Len(Flat(cfg.disks)) : IsSome(Flat(cfg.disks)[i].id)

\* Devices that may sit behind the virtual IOMMU when they ask for it.
IommuCapableDevices(c) ==
    Flat(c.disks) \o Flat(c.net) \o Flat(c.pmem) \o Flat(c.devices)
    \o Flat(c.vdpa) \o c.vsock

\* Devices that may never sit behind the virtual IOMMU.
IommuIncapableDevices(c) == Flat(c.fs) \o Flat(c.user_devices)

ListedIommuSegment(c, seg) ==
    /\ IsSome(c.platform)
    /\ IsSome(c.platform[1].iommu_segments)
    /\ seg \in Range(c.platform[1].iommu_segments[1])

\* C5: after validate() succeeds every disk, NIC, pmem, passthrough, vDPA
\* device and vsock on a segment listed in platform.iommu_segments has
\* iommu set, and no filesystem or user device is on a listed segment;
\* OnIommuSegment(s) and IommuNotSupportedOnSegment(s) name the segment of
\* such a device.
C5_IommuPlacement ==
    /\ ValidateOk =>
          /\ \A i \in 1..Len(IommuCapableDevices(cfg)) :
                LET d == IommuCapableDevices(cfg)[i]
                IN ListedIommuSegment(cfg, d.pci_segment) => d.iommu
          /\ \A i \in 1..Len(IommuIncapableDevices(cfg)) :
                ~ListedIommuSegment(cfg, IommuIncapableDevices(cfg)[i].pci_segment)
    /\ vres.tag = "OnIommuSegment" =>
          \E i \in 1..Len(IommuCapableDevices(cfg)) :
              LET d == IommuCapableDevices(cfg)[i]
              IN /\ vres.args = <<d.pci_segment>>
                 /\ ListedIommuSegment(cfg, d.pci_segment)
                 /\ ~d.iommu
    /\ vres.tag = "IommuNotSupportedOnSegment" =>
          \E i \in 1..Len(IommuIncapableDevices(cfg)) :
              LET d == IommuIncapableDevices(cfg)[i]
              IN /\ vres.args = <<d.pci_segment>>
                 /\ ListedIommuSegment(cfg, d.pci_segment)

C5_Witness ==
    /\ ValidateOk
    /\ IsSome(cfg.vsock)
    /\ ListedIommuSegment(cfg, cfg.vsock[1].pci_segment)
    /\ cfg.vsock[1].iommu

\* Every PCI segment index the configuration refers to.
ReferencedSegments(c) ==
    LET devs == IommuCapableDevices(c) \o IommuIncapableDevices(c) \o Flat(c.pci_segments)
        numa == Flat(c.numa)
    IN {devs[i].pci_segment : i \in 1..Len(devs)}
       \cup UNION {Range(Flat(numa[i].pci_segments)) : i \in 1..Len(numa)}
       \cup (IF IsSome(c.platform) THEN Range(Flat(c.platform[1].iommu_segments)) ELSE {})

SegmentCount(c) == IF IsSome(c.platform) THEN c.platform[1].num_pci_segments ELSE 1

\* C6 as stated: after validate() succeeds every referenced PCI segment index
\* is below num_pci_segments, which is 1 without a platform config.
C6_Original ==
    ValidateOk => \A seg \in ReferencedSegments(cfg) : seg < SegmentCount(cfg)

\* C6, what the code does enforce: with a platform config present, every
\* referenced PCI segment index is below its num_pci_segments.
C6_WithPlatform ==
    (ValidateOk /\ IsSome(cfg.platform)) =>
        \A seg \in ReferencedSegments(cfg) : seg < SegmentCount(cfg)

C6_Witness ==
    /\ ValidateOk
    /\ IsNone(cfg.platform)
    /\ \E i \in 1..Len(Flat(cfg.disks)) : Flat(cfg.disks)[i].pci_segment = 1

AnyIommuFlag(c) ==
    \/ \E i \in 1..Len(IommuCapableDevices(c)) : IommuCapableDevices(c)[i].iommu
    \/ c.rng.iommu
    \/ c.console.iommu

PlatformDeclaresIommuSegments(c) ==
    IsSome(c.platform) /\ IsSome(c.platform[1].iommu_segments)

NeedsVhostSharedMemory(c) ==
    \/ \E i \in 1..Len(Flat(c.disks)) : Flat(c.disks)[i].vhost_user
    \/ \E i \in 1..Len(Flat(c.net)) : Flat(c.net)[i].vhost_user
    \/ IsSome(c.fs)

NeedsUserSharedMemory(c) == IsSome(c.user_devices)

SharedBacked(c) ==
    \/ c.memory.shared
    \/ c.memory.hugepages
    \/ /\ c.memory.size = 0
       /\ \A i \in 1..Len(Flat(c.memory.zones)) :
             Flat(c.memory.zones)[i].shared \/ Flat(c.memory.zones)[i].hugepages

\* C8: after validate() succeeds, a configuration with a vhost_user disk or
\* NIC, a filesystem or a user device has shared-backed guest memory;
\* VhostUserRequiresSharedMemory and UserDevicesRequireSharedMemory are
\* returned only for such a configuration whose memory is not shared-backed.
C8_SharedMemory ==
    /\ (ValidateOk /\ (NeedsVhostSharedMemory(cfg) \/ NeedsUserSharedMemory(cfg))) =>
          SharedBacked(cfg)
    /\ vres.tag = "VhostUserRequiresSharedMemory" =>
          (NeedsVhostSharedMemory(cfg) /\ ~SharedBacked(cfg))
    /\ vres.tag = "UserDevicesRequireSharedMemory" =>
          (NeedsUserSharedMemory(cfg) /\ ~SharedBacked(cfg))

C8_Witness ==
    /\ ValidateOk
    /\ IsSome(cfg.user_devices)
    /\ ~cfg.memory.shared /\ ~cfg.memory.hugepages
    /\ cfg.memory.size = 0
    /\ IsSome(cfg.memory.zones) /\ Len(cfg.memory.zones[1]) = 2

(***************************************************************************)
(* Properties of RestoreConfig::validate                                   *)
(***************************************************************************)
\* `rres` is what RestoreConfig::validate returned for `rcfg` against `cfg`.
RestoreReturned == rres.tag # "NotRun"

RestoreEntries == Flat(rcfg[1].net_fds)

\* The NICs of the configuration that carry fds, in VmConfig.net order.
FdBackedNics == SelectSeq(Flat(cfg.net), LAMBDA n : IsSome(n.fds))

NoDuplicateEntry ==
    \A i \in 1..Len(RestoreEntries), j \in 1..Len(RestoreEntries) :
        RestoreEntries[i].id = RestoreEntries[j].id => i = j

HasEntry(id) == \E i \in 1..Len(RestoreEntries) : RestoreEntries[i].id = id

SuppliedCount(id) ==
    RestoreEntries[CHOOSE i \in 1..Len(RestoreEntries) : RestoreEntries[i].id = id].num_fds

\* The NIC has an entry of its id with its number of fds.
Satisfied(n) ==
    /\ IsSome(n.id)
    /\ \E i \in 1..Len(RestoreEntries) :
          /\ RestoreEntries[i].id = n.id[1]
          /\ RestoreEntries[i].num_fds = Len(n.fds[1])

DuplicatedEntryIds ==
    {RestoreEntries[i].id : i \in {k \in 1..Len(RestoreEntries) :
        \E j \in 1..Len(RestoreEntries) :
            j # k /\ RestoreEntries[j].id = RestoreEntries[k].id}}

\* C11: a restore request in which two net_fds entries carry the same id is
\* rejected with IdentifierNotUnique(id), before any NIC is matched: whether
\* or not the id names a NIC and whether or not the NICs would reconcile;
\* and IdentifierNotUnique is returned for no other request.
C11_DuplicateRestoreId ==
    RestoreReturned =>
        /\ DuplicatedEntryIds # {} =>
              (rres.tag = "IdentifierNotUnique" /\ Len(rres.args) = 1
                  /\ rres.args[1] \in DuplicatedEntryIds)
        /\ rres.tag = "IdentifierNotUnique" => DuplicatedEntryIds # {}

C11_Witness ==
    /\ rres.tag = "IdentifierNotUnique"
    /\ rres.args = <<Str_c>>
    /\ Len(FdBackedNics) = 2
    /\ \A k \in 1..Len(FdBackedNics) : IsSome(FdBackedNics[k].id)

(***************************************************************************)
(* Properties of the NUMA pass                                             *)
(***************************************************************************)
NumaNodesOf(c) == Flat(c.numa)

NodeSegments(c, i) == Range(Flat(NumaNodesOf(c)[i].pci_segments))

NodeZones(c, i) == Range(Flat(NumaNodesOf(c)[i].memory_zones))

NodeId(c, i) == NumaNodesOf(c)[i].guest_numa_id

\* Two nodes list the same PCI segment / the same memory zone.
SegmentSharedByTwoNodes(c) ==
    \E i \in 1..Len(NumaNodesOf(c)), j \in 1..Len(NumaNodesOf(c)) :
        i < j /\ NodeSegments(c, i) \cap NodeSegments(c, j) # {}

ZoneSharedByTwoNodes(c) ==
    \E i \in 1..Len(NumaNodesOf(c)), j \in 1..Len(NumaNodesOf(c)) :
        i < j /\ NodeZones(c, i) \cap NodeZones(c, j) # {}

\* The error is a reuse error naming a segment or zone that the nodes at
\* positions i < j both list, node i being the first node to list it.
ReuseErrorNamesBothNodes(c, r) ==
    /\ r.tag \in {"PciSegmentReused", "MemoryZoneReused"}
    /\ Len(r.args) = 3
    /\ \E i \in 1..Len(NumaNodesOf(c)), j \in 1..Len(NumaNodesOf(c)) :
          /\ i < j
          /\ r.args[2] = NodeId(c, i)
          /\ r.args[3] = NodeId(c, j)
          /\ IF r.tag = "PciSegmentReused"
             THEN /\ r.args[1] \in NodeSegments(c, i) \cap NodeSegments(c, j)
                  /\ \A k \in 1..(i - 1) : r.args[1] \notin NodeSegments(c, k)
             ELSE /\ r.args[1] \in NodeZones(c, i) \cap NodeZones(c, j)
                  /\ \A k \in 1..(i - 1) : r.args[1] \notin NodeZones(c, k)

\* Every listed segment passes the two tests the NUMA pass makes before the
\* reuse test: it is below num_pci_segments, and segment 0 is listed by
\* node 0 only.
SegmentsListable(c) ==
    \A i \in 1..Len(NumaNodesOf(c)) : \A g \in NodeSegments(c, i) :
        g < SegmentCount(c) /\ (g = 0 => NodeId(c, i) = 0)

\* C12 as stated: two nodes listing the same PCI segment or memory zone
\* make validate() fail with a reuse error naming both nodes, first
\* claimant first; without such a pair there is no reuse error.
C12_Original ==
    ValidateReturned =>
        /\ (SegmentSharedByTwoNodes(cfg) \/ ZoneSharedByTwoNodes(cfg)) =>
              ReuseErrorNamesBothNodes(cfg, vres)
        /\ ~(SegmentSharedByTwoNodes(cfg) \/ ZoneSharedByTwoNodes(cfg)) =>
              vres.tag \notin {"PciSegmentReused", "MemoryZoneReused"}

\* C12 amended: the same, for nodes whose listed segments are all below
\* num_pci_segments and list segment 0 under node 0 only; a reuse error
\* always names two nodes that list the item, first claimant first.
C12_NumaReuse ==
    ValidateReturned =>
        /\ ((ZoneSharedByTwoNodes(cfg) \/ SegmentSharedByTwoNodes(cfg))
                /\ SegmentsListable(cfg)) =>
              ReuseErrorNamesBothNodes(cfg, vres)
        /\ vres.tag \in {"PciSegmentReused", "MemoryZoneReused"} =>
              ReuseErrorNamesBothNodes(cfg, vres)
        /\ (~(SegmentSharedByTwoNodes(cfg) \/ ZoneSharedByTwoNodes(cfg))
                /\ SegmentsListable(cfg)) =>
              ValidateOk

C12_Witness ==
    /\ vres.tag = "PciSegmentReused"
    /\ vres.args = <<1, 0, 1>>
    /\ ~ZoneSharedByTwoNodes(cfg)
    /\ \E i \in 1..Len(NumaNodesOf(cfg)) : NodeZones(cfg, i) # {}

DeclaredZoneIds(c) ==
    {Flat(c.memory.zones)[i].id : i \in 1..Len(Flat(c.memory.zones))}

\* C13 as stated: after validate() succeeds every memory-zone id a NUMA node
\* lists is the id of a zone declared in memory.zones.
C13_Original ==
    ValidateOk =>
        \A i \in 1..Len(NumaNodesOf(cfg)) : NodeZones(cfg, i) \subseteq DeclaredZoneIds(cfg)

C13_Witness ==
    /\ ValidateOk
    /\ IsNone(cfg.memory.zones)
    /\ \E i \in 1..Len(NumaNodesOf(cfg)) : Str_a \in NodeZones(cfg, i)

(***************************************************************************)
(* Properties of the vhost-user disk checks                                *)
(***************************************************************************)
SocketlessVhostDisk(d) == d.vhost_user /\ IsNone(d.vhost_socket)

HasSocketlessVhostDisk(c) ==
    \E i \in 1..Len(Flat(c.disks)) : SocketlessVhostDisk(Flat(c.disks)[i])

\* validate() reaches the missing-socket test of a socketless vhost-user
\* disk: the checks made before the disks pass, guest memory is
\* shared-backed and no disk before that one is rejected.
ReachesSocketTest(c) ==
    /\ c.payload
    /\ ~(c.console.mode = "File" /\ IsNone(c.console.file))
    /\ ~(c.serial.mode = "File" /\ IsNone(c.serial.file))
    /\ c.cpus.max_vcpus >= c.cpus.boot_vcpus
    /\ c.rate_limit_groups = None
    /\ (c.memory.shared \/ c.memory.hugepages)
    /\ \E i \in 1..Len(Flat(c.disks)) :
          /\ SocketlessVhostDisk(Flat(c.disks)[i])
          /\ \A j \in 1..(i - 1) : IsNone(DiskPreChecks(Flat(c.disks)[j], c))

TopologyProduct(t) == t[1] * t[2] * t[3] * t[4]

TopologyHasZero(t) == \E i \in 1..4 : t[i] = 0

\* C15 as stated: a config with an explicit topology is accepted only if
\* max_vcpus >= boot_vcpus, no factor is zero and the unbounded product of
\* the factors is max_vcpus; a mismatching product is rejected with
\* CpuTopologyCount and a zero factor with CpuTopologyZeroPart.
C15_Original ==
    (ValidateReturned /\ IsSome(cfg.cpus.topology)) =>
        LET t == cfg.cpus.topology[1]
        IN /\ ValidateOk =>
                 /\ cfg.cpus.max_vcpus >= cfg.cpus.boot_vcpus
                 /\ ~TopologyHasZero(t)
                 /\ TopologyProduct(t) = cfg.cpus.max_vcpus
           /\ (cfg.cpus.max_vcpus >= cfg.cpus.boot_vcpus /\ TopologyHasZero(t)) =>
                 vres.tag = "CpuTopologyZeroPart"
           /\ (cfg.cpus.max_vcpus >= cfg.cpus.boot_vcpus /\ ~TopologyHasZero(t)
                  /\ TopologyProduct(t) # cfg.cpus.max_vcpus) =>
                 vres.tag = "CpuTopologyCount"

\* validate() accepted a topology whose product is not max_vcpus.
C15_Witness ==
    /\ ValidateOk
    /\ IsSome(cfg.cpus.topology)
    /\ cfg.cpus.topology[1] = <<129, 2, 1, 1>>
    /\ cfg.cpus.max_vcpus = 2
    /\ ~overflow_checks

(***************************************************************************)
(* Properties of the queue and fd checks                                   *)
(***************************************************************************)
DisksAndFs(c) == Flat(c.disks) \o Flat(c.fs)

\* C16 as stated: after validate() succeeds no disk, NIC or filesystem has
\* more queues than boot vCPUs.
C16_Original ==
    ValidateOk =>
        /\ \A i \in 1..Len(DisksAndFs(cfg)) :
              DisksAndFs(cfg)[i].num_queues <= cfg.cpus.boot_vcpus
        /\ \A i \in 1..Len(Flat(cfg.net)) :
              Flat(cfg.net)[i].num_queues <= cfg.cpus.boot_vcpus

\* C16 amended: after validate() succeeds no disk or filesystem has more
\* queues, and no NIC more queue pairs (num_queues / 2), than boot vCPUs;
\* TooManyQueues is returned only for a configuration with such a device.
C16_QueuesWithinVcpus ==
    /\ ValidateOk =>
          /\ \A i \in 1..Len(DisksAndFs(cfg)) :
                DisksAndFs(cfg)[i].num_queues <= cfg.cpus.boot_vcpus
          /\ \A i \in 1..Len(Flat(cfg.net)) :
                Flat(cfg.net)[i].num_queues \div 2 <= cfg.cpus.boot_vcpus
    /\ vres.tag = "TooManyQueues" =>
          \/ \E i \in 1..Len(DisksAndFs(cfg)) :
                DisksAndFs(cfg)[i].num_queues > cfg.cpus.boot_vcpus
          \/ \E i \in 1..Len(Flat(cfg.net)) :
                Flat(cfg.net)[i].num_queues \div 2 > cfg.cpus.boot_vcpus

C16_Witness ==
    /\ ValidateOk
    /\ cfg.cpus.boot_vcpus = 1
    /\ \E i \in 1..Len(Flat(cfg.net)) : Flat(cfg.net)[i].num_queues = 3
    /\ \E i \in 1..Len(Flat(cfg.fs)) : Flat(cfg.fs)[i].num_queues = 1

FdNics(c) == SelectSeq(Flat(c.net), LAMBDA n : IsSome(n.fds))

AllFdsAbove2(n) == \A i \in 1..Len(n.fds[1]) : n.fds[1][i] > 2

\* The configuration's only device is one NIC that supplies fds and has no
\* more queue pairs than boot vCPUs.
OnlyOneFdNic(c) ==
    /\ IsNone(c.disks) /\ IsNone(c.fs)
    /\ Len(Flat(c.net)) = 1 /\ Len(FdNics(c)) = 1
    /\ FdNics(c)[1].num_queues \div 2 <= c.cpus.boot_vcpus

\* C17 as stated: a NIC with fds passes only if num_queues >= 2, it has
\* exactly num_queues / 2 fds and every fd is above 2; a wrong count gives
\* VnetQueueFdMismatch, an fd <= 2 VnetReservedFd; and a NIC with
\* num_queues >= 2 and exactly num_queues / 2 fds, all above 2, passes.
C17_Original ==
    ValidateReturned =>
        /\ ValidateOk =>
              \A i \in 1..Len(FdNics(cfg)) :
                  LET n == FdNics(cfg)[i]
                  IN /\ n.num_queues >= 2
                     /\ Len(n.fds[1]) = n.num_queues \div 2
                     /\ AllFdsAbove2(n)
        /\ OnlyOneFdNic(cfg) =>
              LET n == FdNics(cfg)[1]
              IN IF n.num_queues < 2 THEN vres.tag = "VnetQueueLowerThan2"
                 ELSE IF Len(n.fds[1]) # n.num_queues \div 2
                 THEN vres.tag = "VnetQueueFdMismatch"
                 ELSE IF ~AllFdsAbove2(n) THEN vres.tag = "VnetReservedFd"
                 ELSE ValidateOk

\* C17 amended: the same with the count test the code makes: twice the
\* number of fds equals num_queues.
C17_NetFds ==
    ValidateReturned =>
        /\ ValidateOk =>
              \A i \in 1..Len(FdNics(cfg)) :
                  LET n == FdNics(cfg)[i]
                  IN /\ n.num_queues >= 2
                     /\ 2 * Len(n.fds[1]) = n.num_queues
                     /\ AllFdsAbove2(n)
        /\ vres.tag = "VnetQueueFdMismatch" =>
              \E i \in 1..Len(FdNics(cfg)) :
                  2 * Len(FdNics(cfg)[i].fds[1]) # FdNics(cfg)[i].num_queues
        /\ vres.tag = "VnetReservedFd" =>
              \E i \in 1..Len(FdNics(cfg)) : ~AllFdsAbove2(FdNics(cfg)[i])
        /\ OnlyOneFdNic(cfg) =>
              LET n == FdNics(cfg)[1]
              IN IF n.num_queues < 2 THEN vres.tag = "VnetQueueLowerThan2"
                 ELSE IF 2 * Len(n.fds[1]) # n.num_queues
                 THEN vres.tag = "VnetQueueFdMismatch"
                 ELSE IF ~AllFdsAbove2(n) THEN vres.tag = "VnetReservedFd"
                 ELSE ValidateOk

C17_Witness ==
    /\ vres.tag = "VnetQueueFdMismatch"
    /\ OnlyOneFdNic(cfg)
    /\ FdNics(cfg)[1].num_queues = 3
    /\ FdNics(cfg)[1].fds = Some(<<3>>)

(***************************************************************************)
(* Properties of the balloon check                                         *)
(***************************************************************************)
\* What MemoryConfig::total_size adds up: the sizes and the hotplugged sizes
\* of the base memory and of every zone.
TotalRam(c) ==
    c.memory.size + SumSeq(c.memory.hotplugged_size)
    + SumSeq([i \in 1..Len(Flat(c.memory.zones)) |->
                Flat(c.memory.zones)[i].size
                + SumSeq(Flat(c.memory.zones)[i].hotplugged_size)])

\* memory.size plus every zone's size, without the hotplugged sizes.
BootRam(c) == BalloonRamSum(c)

\* The configuration validates once its balloon is taken away.
ValidWithoutBalloon(c) ==
    VmConfigValidate([c EXCEPT !.balloon = None], overflow_checks).res.tag = "Ok"

\* C18 as stated: with a balloon, validate() succeeds only if balloon.size
\* is below the total RAM that total_size computes (hotplugged sizes
\* included); otherwise it fails with BalloonLargerThanRam(balloon.size,
\* total RAM).
C18_Original ==
    (ValidateReturned /\ IsSome(cfg.balloon)) =>
        /\ ValidateOk => cfg.balloon[1].size < TotalRam(cfg)
        /\ (ValidWithoutBalloon(cfg) /\ cfg.balloon[1].size >= TotalRam(cfg)) =>
              /\ vres.tag = "BalloonLargerThanRam"
              /\ vres.args = <<cfg.balloon[1].size, TotalRam(cfg)>>

\* C18 amended: with a balloon, validate() succeeds only if balloon.size is
\* below memory.size plus every zone's size (hotplugged sizes not counted);
\* otherwise it fails with BalloonLargerThanRam(balloon.size, that sum).
C18_BalloonBelowRam ==
    (ValidateReturned /\ IsSome(cfg.balloon)) =>
        /\ ValidateOk => cfg.balloon[1].size < BootRam(cfg)
        /\ (ValidWithoutBalloon(cfg) /\ cfg.balloon[1].size >= BootRam(cfg)) =>
              /\ vres.tag = "BalloonLargerThanRam"
              /\ vres.args = <<cfg.balloon[1].size, BootRam(cfg)>>

C18_Witness ==
    /\ vres.tag = "BalloonLargerThanRam"
    /\ IsSome(cfg.memory.hotplugged_size)
    /\ cfg.balloon[1].size = BootRam(cfg)
    /\ cfg.balloon[1].size < TotalRam(cfg)

(***************************************************************************)
(* Properties of the console checks                                        *)
(***************************************************************************)
FileMissing(k) == k.mode = "File" /\ IsNone(k.file)

SocketPathMissing(k) == k.mode = "Socket" /\ IsNone(k.socket)

TtyConsoles(c) ==
    {n \in {"console", "serial", "debug_console"} : c[n].mode = "Tty"}

\* C19 as stated: validate() rejects a console or serial in File mode
\* without a file (ConsoleFileMissing) and a console or serial in Socket
\* mode without a socket path (ConsoleSocketPathMissing); more than one
\* console in Tty mode is never an error.
C19_Original ==
    (ValidateReturned /\ cfg.payload) =>
        /\ (FileMissing(cfg.console) \/ FileMissing(cfg.serial)) =>
              vres.tag = "ConsoleFileMissing"
        /\ (/\ ~(FileMissing(cfg.console) \/ FileMissing(cfg.serial))
            /\ (SocketPathMissing(cfg.console) \/ SocketPathMissing(cfg.serial))) =>
              vres.tag = "ConsoleSocketPathMissing"
        /\ (/\ Cardinality(TtyConsoles(cfg)) > 1
            /\ ~(FileMissing(cfg.console) \/ FileMissing(cfg.serial))
            /\ ~(SocketPathMissing(cfg.console) \/ SocketPathMissing(cfg.serial))) =>
              ValidateOk

\* validate() has accepted a console in Socket mode that has no socket path.
C19_Witness ==
    /\ ValidateOk
    /\ SocketPathMissing(cfg.console)

(***************************************************************************)
(* Properties of the serial check                                          *)
(***************************************************************************)
SerialLen(d) == IF IsSome(d.serial) THEN Len(d.serial[1]) ELSE 0

SerialTooLong(d) == SerialLen(d) >= VIRTIO_BLK_ID_BYTES + 1

\* No disk before the i-th has a serial that is too long.
DisksBeforePass(c, i) ==
    \A j \in 1..(i - 1) : ~SerialTooLong(Flat(c.disks)[j])

QueueSizesValid(c) ==
    \A i \in 1..Len(Flat(c.disks)) :
        Flat(c.disks)[i].queue_size > MINIMUM_BLOCK_QUEUE_SIZE

\* C20: a disk whose serial is absent, empty or at most VIRTIO_BLK_ID_BYTES
\* bytes long passes the serial check, and a serial of VIRTIO_BLK_ID_BYTES + 1
\* bytes or more fails with InvalidSerialLength(its length,
\* VIRTIO_BLK_ID_BYTES).
C20_SerialLength ==
    ValidateReturned =>
        /\ vres.tag = "InvalidSerialLength" =>
              \E i \in 1..Len(Flat(cfg.disks)) :
                  /\ SerialTooLong(Flat(cfg.disks)[i])
                  /\ DisksBeforePass(cfg, i)
                  /\ vres.args = <<SerialLen(Flat(cfg.disks)[i]), VIRTIO_BLK_ID_BYTES>>
        /\ QueueSizesValid(cfg) =>
              IF \E i \in 1..Len(Flat(cfg.disks)) : SerialTooLong(Flat(cfg.disks)[i])
              THEN vres.tag = "InvalidSerialLength"
              ELSE ValidateOk

C20_Witness ==
    /\ vres = [tag |-> "InvalidSerialLength",
               args |-> <<VIRTIO_BLK_ID_BYTES + 1, VIRTIO_BLK_ID_BYTES>>,
               ids |-> {}]
    /\ Len(Flat(cfg.disks)) = 2
    /\ SerialLen(Flat(cfg.disks)[1]) = VIRTIO_BLK_ID_BYTES
    /\ SerialLen(Flat(cfg.disks)[2]) = VIRTIO_BLK_ID_BYTES + 1

(***************************************************************************)
(* Properties of the preserved descriptors                                 *)
(***************************************************************************)
OwnedFds(v) == IF Live(v) THEN Flat(PreservedFds(v)) ELSE <<>>

\* No descriptor number is held twice, by one live config or by two.
NoSharedFd ==
    \A v \in VmIds, w \in VmIds :
        \A i \in 1..Len(OwnedFds(v)), j \in 1..Len(OwnedFds(w)) :
            (v # w \/ i # j) => OwnedFds(v)[i] # OwnedFds(w)[j]

\* Every descriptor of a live config is open.
OwnedFdsOpen ==
    \A v \in VmIds : \A i \in 1..Len(OwnedFds(v)) : OwnedFds(v)[i] \in fdtable

\* The clone just made holds one descriptor per descriptor of its source,
\* each opened by the clone call.
CloneIsFresh ==
    fdlast.op = "clone" =>
        /\ Len(OwnedFds(fdlast.v)) = Len(OwnedFds(fdlast.src))
        /\ \A i \in 1..Len(OwnedFds(fdlast.v)) :
              /\ OwnedFds(fdlast.v)[i] \in fdtable
              /\ OwnedFds(fdlast.v)[i] \notin fdlast.table

\* The drop just made closed open descriptors only, each once, and nothing
\* else.
DropClosesOwn ==
    fdlast.op = "drop" =>
        /\ \A i \in 1..Len(fdlast.calls) : fdlast.calls[i].open
        /\ fdtable = fdlast.table \ {fdlast.calls[i].fd : i \in 1..Len(fdlast.calls)}

\* C21 as stated: over any sequence of add_preserved_fds, clone and drop, a
\* clone holds a freshly duplicated descriptor for every preserved fd of its
\* source, no descriptor number is shared between live configs, a drop closes
\* exactly the descriptors the config owns, each once, and the descriptors of
\* every other live config stay open.
C21_Original == NoSharedFd /\ OwnedFdsOpen /\ CloneIsFresh /\ DropClosesOwn

\* A clone has been made that holds the result of a failed dup.
C21_Witness ==
    /\ fdlast.op = "clone"
    /\ \A i \in 1..Len(OwnedFds(fdlast.src)) : OwnedFds(fdlast.src)[i] \in fdlast.table
    /\ \E i \in 1..Len(OwnedFds(fdlast.v)) : OwnedFds(fdlast.v)[i] = FAILED

(***************************************************************************)
(* Properties of repeated validation                                       *)
(***************************************************************************)
\* C22: when validate() has returned Ok(S), calling validate() again on the
\* unchanged config returns Ok(S) with the same identifier set and leaves
\* every field, the aggregate iommu flag included, as the first call left it.
C22_ValidateIdempotent ==
    [][(ValidateOk /\ Validate) => (vres' = vres /\ cfg' = cfg)]_vars

\* A second validate() has returned Ok on a config whose devices set the
\* aggregate iommu flag: the call started from the config it left.
C22_Witness ==
    /\ ValidateOk
    /\ prev = Some(cfg)
    /\ AnyIommuFlag(cfg)
    /\ cfg.iommu

(***************************************************************************)
(* Properties of the DeviceTree as a map                                   *)
(***************************************************************************)
OtherKeysKept(k) ==
    \A j \in NodeIds \ {k} : DeviceTreeGet(tree', j) = DeviceTreeGet(tree, j)

\* C23: insert(k, v) stores v under k, overwriting, and returns the node k
\* had (None for a new key); remove(k) returns the stored node and makes
\* get(k) and contains_key(k) report absence; no call touches another key,
\* so get(k) is the node of the last insert(k, _) not followed by remove(k).
C23_LastInsertWins ==
    [][\A k \in NodeIds :
          /\ \A v \in NodeValues :
                TreeInsert(k, v) =>
                    /\ DeviceTreeGet(tree', k) = Some(v)
                    /\ tret'.ret = DeviceTreeGet(tree, k)
                    /\ OtherKeysKept(k)
          /\ TreeRemove(k) =>
                /\ DeviceTreeGet(tree', k) = None
                /\ ~DeviceTreeContainsKey(tree', k)
                /\ tret'.ret = DeviceTreeGet(tree, k)
                /\ OtherKeysKept(k)]_vars

\* An insert has overwritten a different node and returned it.
C23_Witness ==
    /\ tret.op = "insert"
    /\ IsSome(tret.ret)
    /\ tret.ret # tret.arg
    /\ DeviceTreeGet(tree, tret.k) = tret.arg
    /\ Cardinality(DOMAIN tree) > 1

RECURSIVE ReachesIn(_, _, _)
ReachesIn(n, a, b) ==
    IF n = 0 THEN FALSE
    ELSE \E i \in 1..Len(tree[a].children) :
            LET c == tree[a].children[i]
            IN c \in Keys /\ (c = b \/ ReachesIn(n - 1, c, b))

OnCycle(k) == k \in Keys /\ ReachesIn(Cardinality(Keys), k, k)

ValidateFailed == ValidateReturned /\ vres.tag \notin {"Ok", "panic"}

\* C25 as stated: when validate() returns an error the VmConfig is exactly
\* as it was before the call, the aggregate iommu flag included.
C25_Original == ValidateFailed => cfg = prev[1]

\* validate() has returned an error and left iommu set on a config that
\* entered the call with iommu clear.
C25_Witness ==
    /\ ValidateFailed
    /\ ~prev[1].iommu
    /\ cfg.iommu
    /\ [cfg EXCEPT !.iommu = FALSE] = prev[1]

(***************************************************************************)
(* Properties of the rate limiter checks                                   *)
(***************************************************************************)
GroupIds(c) ==
    {Flat(c.rate_limit_groups)[i].id : i \in 1..Len(Flat(c.rate_limit_groups))}

GroupWellFormed(g) == g.id # <<>> /\ (g.bandwidth \/ g.ops)

DiskRateOk(d, c) ==
    /\ IsSome(d.rate_limit_group) => d.rate_limit_group[1] \in GroupIds(c)
    /\ ~(IsSome(d.rate_limiter_config) /\ IsSome(d.rate_limit_group))

RateLimitsOk(c) ==
    /\ \A i \in 1..Len(Flat(c.rate_limit_groups)) :
          GroupWellFormed(Flat(c.rate_limit_groups)[i])
    /\ \A i \in 1..Len(Flat(c.disks)) : DiskRateOk(Flat(c.disks)[i], c)

\* The configuration without its groups, group references and inline rate
\* limiters.
WithoutRateLimits(c) ==
    [c EXCEPT !.rate_limit_groups = None,
              !.disks = IF IsNone(@) THEN @
                        ELSE Some([i \in 1..Len(@[1]) |->
                                     [@[1][i] EXCEPT !.rate_limit_group = None,
                                                     !.rate_limiter_config = None]])]

\* C26: after validate() succeeds every disk's rate_limit_group names a
\* declared group, every declared group has a non-empty id and bandwidth or
\* ops, and no disk has both an inline rate limiter and a group; a
\* configuration that breaks one of these and is valid otherwise fails with
\* InvalidRateLimiterGroup, and that error is returned for nothing else.
C26_RateLimitGroups ==
    ValidateReturned =>
        /\ ValidateOk => RateLimitsOk(cfg)
        /\ vres.tag = "InvalidRateLimiterGroup" => ~RateLimitsOk(cfg)
        /\ (/\ ~RateLimitsOk(cfg)
            /\ VmConfigValidate(WithoutRateLimits(cfg), overflow_checks).res.tag = "Ok")
              => vres.tag = "InvalidRateLimiterGroup"

\* validate() has rejected a disk that refers to a group that is not among
\* the declared, well-formed groups.
C26_Witness ==
    /\ vres.tag = "InvalidRateLimiterGroup"
    /\ Len(Flat(cfg.rate_limit_groups)) = 2
    /\ \A i \in 1..Len(Flat(cfg.rate_limit_groups)) :
          GroupWellFormed(Flat(cfg.rate_limit_groups)[i])
    /\ \E i \in 1..Len(Flat(cfg.disks)) :
          /\ IsSome(Flat(cfg.disks)[i].rate_limit_group)
          /\ Flat(cfg.disks)[i].rate_limit_group[1] \notin GroupIds(cfg)
          /\ IsNone(Flat(cfg.disks)[i].rate_limiter_config)

(***************************************************************************)
(* Properties of the default PCI segment                                   *)
(***************************************************************************)
\* Node i has a non-zero id and lists segment 0.
ListsDefaultSegmentWrongly(c, i) == 0 \in NodeSegments(c, i) /\ NodeId(c, i) # 0

\* No two nodes list the same segment, other than segment 0 listed by a node
\* with a non-zero id.
NoOtherSegmentShared(c) ==
    \A i \in 1..Len(NumaNodesOf(c)), j \in 1..Len(NumaNodesOf(c)) :
        i # j => \A g \in NodeSegments(c, i) \cap NodeSegments(c, j) :
                    g = 0 /\ (NodeId(c, i) # 0 \/ NodeId(c, j) # 0)

AllSegmentsInRange(c) ==
    \A i \in 1..Len(NumaNodesOf(c)) : \A g \in NodeSegments(c, i) : g < SegmentCount(c)

\* C27: after validate() succeeds segment 0 is listed only by nodes with
\* guest_numa_id 0; a node with another id that lists segment 0 fails with
\* DefaultPciSegmentInvalidNode(its id); and on each listed segment the range
\* test comes before the default-segment test, which comes before the reuse
\* test.
C27_DefaultSegment ==
    ValidateReturned =>
        /\ ValidateOk =>
              \A i \in 1..Len(NumaNodesOf(cfg)) : ~ListsDefaultSegmentWrongly(cfg, i)
        /\ vres.tag = "DefaultPciSegmentInvalidNode" =>
              /\ 0 < SegmentCount(cfg)
              /\ \E i \in 1..Len(NumaNodesOf(cfg)) :
                    /\ ListsDefaultSegmentWrongly(cfg, i)
                    /\ vres.args = <<NodeId(cfg, i)>>
        /\ vres.tag = "PciSegmentReused" =>
              /\ vres.args[1] < SegmentCount(cfg)
              /\ ~(vres.args[1] = 0 /\ vres.args[3] # 0)
        /\ (/\ \E i \in 1..Len(NumaNodesOf(cfg)) : ListsDefaultSegmentWrongly(cfg, i)
            /\ AllSegmentsInRange(cfg)
            /\ NoOtherSegmentShared(cfg)
            /\ ~ZoneSharedByTwoNodes(cfg)) =>
              vres.tag = "DefaultPciSegmentInvalidNode"

\* Node 0 and node 1 both list segment 0, and validate() has answered with
\* the default-segment error for node 1, not with a reuse error.
C27_Witness ==
    /\ vres.tag = "DefaultPciSegmentInvalidNode"
    /\ vres.args = <<1>>
    /\ Len(NumaNodesOf(cfg)) = 2
    /\ NodeId(cfg, 1) = 0 /\ 0 \in NodeSegments(cfg, 1)
    /\ NodeId(cfg, 2) = 1 /\ 0 \in NodeSegments(cfg, 2)

(***************************************************************************)
(* Properties of remove_device                                             *)
(***************************************************************************)
RemovableLists == {"devices", "user_devices", "disks", "fs", "net", "pmem", "vdpa"}

\* Some passthrough, user, disk, fs, net, pmem, vDPA or vsock device of c
\* carries the id.
CarriesId(c, id) ==
    \/ \E f \in RemovableLists : \E i \in 1..Len(Flat(c[f])) : Flat(c[f])[i].id = Some(id)
    \/ (IsSome(c.vsock) /\ c.vsock[1].id = Some(id))

\* The list after is the list before without the devices that carry the id.
KeptInOrder(before, after, id) ==
    /\ IsSome(after) <=> IsSome(before)
    /\ Flat(after) = SelectSeq(Flat(before), LAMBDA d : d.id # Some(id))

\* Config c with the eight device fields of config d.
WithDevicesOf(c, d) ==
    [c EXCEPT !.devices = d.devices, !.user_devices = d.user_devices,
              !.disks = d.disks, !.fs = d.fs, !.net = d.net, !.pmem = d.pmem,
              !.vdpa = d.vdpa, !.vsock = d.vsock]

\* C28: on a config that validates, remove_device(id) returns true exactly
\* when a passthrough, user, disk, fs, net, pmem, vDPA or vsock device
\* carried the id, removes those devices and nothing else, and the config
\* validates again, with the first identifier set minus id when a device was
\* removed and with the same set otherwise.
C28_RemoveThenValidate ==
    (vres.tag = "Removed"
     /\ VmConfigValidate(prev[1], overflow_checks).res.tag = "Ok") =>
        LET id == vres.args[1]
            removed == vres.args[2]
            first == VmConfigValidate(prev[1], overflow_checks).res
            second == VmConfigValidate(cfg, overflow_checks).res
        IN /\ removed <=> CarriesId(prev[1], id)
           /\ \A f \in RemovableLists : KeptInOrder(prev[1][f], cfg[f], id)
           /\ cfg.vsock = IF IsSome(prev[1].vsock) /\ prev[1].vsock[1].id = Some(id)
                          THEN None ELSE prev[1].vsock
           /\ WithDevicesOf(cfg, prev[1]) = prev[1]
           /\ second.tag = "Ok"
           /\ second.ids = IF removed THEN first.ids \ {id} ELSE first.ids

\* remove_device has taken a device out of a validated config that also
\* holds a device without an id.
C28_Witness ==
    /\ vres.tag = "Removed"
    /\ vres.args[2]
    /\ VmConfigValidate(prev[1], overflow_checks).res.tag = "Ok"
    /\ VmConfigValidate(prev[1], overflow_checks).res.ids = {vres.args[1]}
    /\ VmConfigValidate(cfg, overflow_checks).res.ids = {}
    /\ \E f \in RemovableLists : \E i \in 1..Len(Flat(cfg[f])) : IsNone(Flat(cfg[f])[i].id)


(***************************************************************************)
(* C29: RestoreConfig::validate never aborts.                              *)
(***************************************************************************)
\* The NICs of the validated configuration that are backed by fds and
\* carry no id.
UnnamedFdNics ==
    {i \in 1..Len(Flat(cfg.net)) :
        IsSome(Flat(cfg.net)[i].fds) /\ IsNone(Flat(cfg.net)[i].id)}

\* C29 (as stated): for every configuration VmConfig::validate accepted and
\* every parsed restore request, RestoreConfig::validate returns Ok or a
\* ValidationError; it never aborts on an assertion or an expect, also when
\* an fd-backed NIC of the configuration has no id.
C29_Original ==
    (vres.tag = "Ok" /\ rres.tag # "NotRun") => rres.tag # "panic"

\* RestoreConfig::validate has aborted on a configuration that
\* VmConfig::validate accepted, for a request whose entries are all unique.
C29_Witness ==
    /\ vres.tag = "Ok"
    /\ IsSome(rcfg)
    /\ rres.tag = "panic"
    /\ UnnamedFdNics # {}
    /\ IsNone(RestoredMapLoop(Flat(rcfg[1].net_fds), {}).err)


(***************************************************************************)
(* C30: what breadth_first_traversal() yields                              *)
(***************************************************************************)
\* The nodes BftIter::new has put in the iterator.
Yielded == {order[i] : i \in 1..Len(order)}

\* The stored nodes reachable by following `children` ids from stored nodes
\* whose `parent` is None.
ReachableFromRoots ==
    {k \in Keys :
        \/ IsNone(tree[k].parent)
        \/ \E r \in Keys : IsNone(tree[r].parent) /\ ReachesIn(Cardinality(Keys), r, k)}

\* Node k names a parent that is not stored (any more).
ParentIsGone(k) == IsSome(tree[k].parent) /\ tree[k].parent[1] \notin Keys

\* Node k is listed among the children of node a.
ListedUnder(a, k) == \E i \in 1..Len(tree[a].children) : tree[a].children[i] = k

====
